---- MODULE Spec2Model ----
(***************************************************************************)
(* PEtab_GUI: the editable-table data binding and its validation state.    *)
(*                                                                         *)
(* Two implementations live in the tree and both are modelled:             *)
(*   impl = "petab_gui" : MainController + TableController(s) +            *)
(*                        PandasTableModel / IndexedPandasTableModel       *)
(*   impl = "penGUI"    : the earlier Controller + penGUI_model            *)
(*                                                                         *)
(* Python values are written as strings: a str is itself, the float 1.0 is *)
(* "float:1.0", the int 2 is "int:2", True is "bool:True", NaN is "nan".   *)
(* So the str "1" and the float 1.0 are different values, as in Python.    *)
(* Rows and columns are numbered from 0, as in the source; a data frame is *)
(* a record of its index labels, its column names and its cell values.     *)
(***************************************************************************)
EXTENDS Integers, Sequences, FiniteSets, TLC

\* at most this many data rows per table (guards of the row-adding handlers)
MaxRows == 4
\* at most this many handler calls in one session
MaxSteps == 2
\* at most this many measurement rows where copy_noise_parameters is applied
MaxNoiseRows == 2

-----------------------------------------------------------------------------
(* Generic helpers *)

Range(s) == {s[i] : i \in DOMAIN s}

RECURSIVE SelectIdx(_, _, _)
\* the subsequence of s at the positions (ascending) that are in keep
SelectIdx(s, keep, i) ==
    IF i > Len(s) THEN <<>>
    ELSE (IF i \in keep THEN <<s[i]>> ELSE <<>>) \o SelectIdx(s, keep, i + 1)

RECURSIVE InsertDesc(_, _)
InsertDesc(x, s) ==
    IF s = <<>> THEN <<x>>
    ELSE IF x >= Head(s) THEN <<x>> \o s
    ELSE <<Head(s)>> \o InsertDesc(x, Tail(s))
RECURSIVE SortedReverse(_)
\* sorted(s, reverse=True)
SortedReverse(s) == IF s = <<>> THEN <<>> ELSE InsertDesc(Head(s), SortedReverse(Tail(s)))

\* Python ints used as row labels (RangeIndex, len(df))
IntLabels == <<"int:0", "int:1", "int:2", "int:3", "int:4", "int:5", "int:6">>
IntLabel(n) == IntLabels[n + 1]
RangeIndex(n) == [i \in 1..n |-> IntLabel(i - 1)]

-----------------------------------------------------------------------------
(* pandas.DataFrame, as far as the handlers use it *)

NRows(f) == Len(f.index)
NCols(f) == Len(f.columns)
HasColumn(f, name) == name \in Range(f.columns)
ColPos(f, name) == CHOOSE j \in DOMAIN f.columns : f.columns[j] = name
EmptyRow(f) == [j \in DOMAIN f.columns |-> ""]
\* df.iloc[row, col], row and col counted from 0
Iloc(f, row, col) == f.data[row + 1][col + 1]
IlocSet(f, row, col, v) ==
    [f EXCEPT !.data[row + 1][col + 1] = v]
\* df.loc[label] = values : overwrites every row carrying the label, else appends
LocSetRow(f, label, values) ==
    IF label \in Range(f.index)
    THEN [f EXCEPT !.data = [i \in DOMAIN f.data |->
                                IF f.index[i] = label THEN values ELSE f.data[i]]]
    ELSE [f EXCEPT !.index = Append(f.index, label),
                   !.data = Append(f.data, values)]
\* df.drop(label, inplace=True) : KeyError when the label is absent
DropRaises(f, label) == label \notin Range(f.index)
Drop(f, label) ==
    LET keep == {i \in DOMAIN f.index : f.index[i] # label}
    IN [f EXCEPT !.index = SelectIdx(f.index, keep, 1),
                 !.data = SelectIdx(f.data, keep, 1)]
\* df.reset_index(drop=True, inplace=True)
ResetIndex(f) == [f EXCEPT !.index = RangeIndex(NRows(f))]
\* df.rename(index={old: new}, inplace=True)
RenameIndex(f, old, new) ==
    [f EXCEPT !.index = [i \in DOMAIN f.index |->
                            IF f.index[i] = old THEN new ELSE f.index[i]]]
\* df.replace(old, new, inplace=True) : whole-cell matches, the index is not touched
Replace(f, old, new) ==
    [f EXCEPT !.data = [i \in DOMAIN f.data |-> [j \in DOMAIN f.data[i] |->
                            IF f.data[i][j] = old THEN new ELSE f.data[i][j]]]]

-----------------------------------------------------------------------------
(* C.py *)

MEASUREMENT_COLUMNS ==
    [observableId |-> "STRING", preequilibrationConditionId |-> "STRING",
     simulationConditionId |-> "STRING", measurement |-> "NUMERIC",
     time |-> "NUMERIC", observableParameters |-> "STRING",
     noiseParameters |-> "STRING", datasetId |-> "STRING",
     replicateId |-> "STRING"]
OBSERVABLE_COLUMNS ==
    [observableId |-> "STRING", observableName |-> "STRING",
     observableFormula |-> "STRING", observableTransformation |-> "STRING",
     noiseFormula |-> "STRING", noiseDistribution |-> "STRING"]
PARAMETER_COLUMNS ==
    [parameterId |-> "STRING", parameterName |-> "STRING",
     parameterScale |-> "STRING", lowerBound |-> "NUMERIC",
     upperBound |-> "NUMERIC", nominalValue |-> "NUMERIC",
     estimate |-> "BOOLEAN", initializationPriorType |-> "STRING",
     initializationPriorParameters |-> "STRING",
     objectivePriorType |-> "STRING", objectivePriorParameters |-> "STRING"]
CONDITION_COLUMNS ==
    [conditionId |-> "STRING", conditionName |-> "STRING"]
\* the empty dict {} handed to ConditionModel
NoColumns == [x \in {} |-> "STRING"]

\* dict.get(key): "None" when the key is absent
DictGet(d, key) == IF key \in DOMAIN d THEN d[key] ELSE "None"

-----------------------------------------------------------------------------
(* utils.validate_value *)

\* float(value) for the strings a user can type here and for the floats read
\* from a file; "ValueError" when it raises
PyFloat(value) ==
    CASE value = "1" -> "float:1.0"
      [] value = "1.0" -> "float:1.0"
      [] value = "2" -> "float:2.0"
      [] value = "float:1.0" -> "float:1.0"
      [] value = "float:2.0" -> "float:2.0"
      [] OTHER -> "ValueError"
\* bool(value) of a str: only the empty string is False
PyBool(value) == IF value = "" THEN "bool:False" ELSE "bool:True"

\* the number a Python value stands for: 1 == 1.0 == True and 0 == 0.0 == False
PyNumber(value) ==
    CASE value \in {"int:0", "float:0.0", "bool:False"} -> "number:0"
      [] value \in {"int:1", "float:1.0", "bool:True"} -> "number:1"
      [] value \in {"int:2", "float:2.0"} -> "number:2"
      [] OTHER -> value
\* a == b of Python; NaN equals nothing
PyEq(a, b) == a # "nan" /\ b # "nan" /\ PyNumber(a) = PyNumber(b)

validate_value(value, expected_type) ==
    CASE expected_type = "STRING" -> [value |-> value, error |-> FALSE]
      [] expected_type = "NUMERIC" ->
            IF PyFloat(value) = "ValueError"
            THEN [value |-> "None", error |-> TRUE]
            ELSE [value |-> PyFloat(value), error |-> FALSE]
      [] expected_type = "BOOLEAN" -> [value |-> PyBool(value), error |-> FALSE]
      [] OTHER -> [value |-> value, error |-> FALSE]

-----------------------------------------------------------------------------
(* State *)

VARIABLES
    impl,             \* which implementation runs: "petab_gui" or "penGUI"
    df,               \* table |-> the model's _data_frame
    invalid,          \* table |-> the model's _invalid_cells, pairs <<row, column>>
    unsaved_changes,  \* MainController.unsaved_changes / Controller.unsaved_changes
    title,            \* the main window's title
    sbml,             \* SbmlViewerModel: sbml_text and antimony_text, and the
                      \* text of the two panes that show them
    window,           \* the main window: "open" or "closed"
    steps,            \* how many handlers have run
    last              \* what the last handler was called with, returned and did

vars == <<impl, df, invalid, unsaved_changes, title, sbml, window, steps, last>>

Tables == {"measurement", "observable", "parameter", "condition"}
\* the tables whose model is an IndexedPandasTableModel (models/pandas_table_model.py)
IndexedTables == {"observable", "parameter", "condition"}
IdColumn(t) ==
    CASE t = "observable" -> "observableId"
      [] t = "parameter" -> "parameterId"
      [] t = "condition" -> "conditionId"

\* The part of the state a handler reads and writes, and the trace it leaves:
\* lints (one entry per call of the PEtab linter), emitted (signals, in order),
\* log (messages to the log pane, by kind and colour).
\* ret is the handler's return value ("raise": it ended in an exception),
\* used names the answers of the environment (linter, user) it consumed,
\* saved tells that an archive was written and written maps the name of each
\* of its entries to the entry's content.
Ctx ==
    [df |-> df, invalid |-> invalid, unsaved_changes |-> unsaved_changes,
     title |-> title, sbml |-> sbml, window |-> window,
     lints |-> <<>>, emitted |-> <<>>, log |-> <<>>,
     ret |-> "None", used |-> {}, saved |-> FALSE, written |-> <<>>]

Log(c, kind, color) == [c EXCEPT !.log = Append(@, <<kind, color>>)]
Emit(c, signal) == [c EXCEPT !.emitted = Append(@, signal)]
Ret(c, value) == [c EXCEPT !.ret = value]
Use(c, answer) == [c EXCEPT !.used = @ \cup {answer}]

-----------------------------------------------------------------------------
(* petab_gui: models/pandas_table_model.py *)

\* IndexedPandasTableModel.__init__ sets _has_named_index for its subclasses
has_named_index(t) == t \in IndexedTables

allowed_columns(t) ==
    CASE t = "measurement" -> MEASUREMENT_COLUMNS
      [] t = "observable" -> OBSERVABLE_COLUMNS
      [] t = "parameter" -> PARAMETER_COLUMNS
      [] t = "condition" -> NoColumns

\* a variant of rowCount without the empty row at the end
rowCount_no_slot(f) == NRows(f)

rowCount(f) == NRows(f) + 1
\* PandasTableModel.get_df returns the frame itself
get_df(f) == f
\* MeasurementModel overrides columnCount without the index column
columnCount(t, f) == IF t = "measurement" THEN NCols(f) ELSE NCols(f) + 1

RECURSIVE insertRowsFrom(_, _, _, _)
insertRowsFrom(f, end_position, i, rows) ==
    IF i >= rows THEN f
    ELSE insertRowsFrom(LocSetRow(f, IntLabel(end_position + i), EmptyRow(f)),
                        end_position, i + 1, rows)
\* a variant of insertRows that adds one row more than asked for
insertRows_one_more(f, rows) == insertRowsFrom(f, NRows(f), 0, rows + 1)

\* always "appends" at label len(df), len(df)+1, ...
insertRows(f, rows) == insertRowsFrom(f, NRows(f), 0, rows)

\* add_invalid_cell that forgets the cell
add_invalid_cell_dropped(c, t, row, column) == c

add_invalid_cell(c, t, row, column) ==
    [c EXCEPT !.invalid[t] = @ \cup {<<row, column>>}]
discard_invalid_cell(c, t, row, column) ==
    [c EXCEPT !.invalid[t] = @ \ {<<row, column>>}]

-----------------------------------------------------------------------------
(* petab_gui: controllers *)

\* unsaved_changes_change that ignores the notification
unsaved_changes_change_dropped(c, flag) == c

unsaved_changes_change(c, flag) ==
    [c EXCEPT !.unsaved_changes = flag,
              !.title = IF flag THEN "PEtab Editor - Unsaved Changes"
                        ELSE "PEtab Editor"]

\* slot of every model's something_changed (MainController.setup_connections)
something_changed(c, flag) ==
    unsaved_changes_change(
        Emit(c, <<"something_changed", IF flag THEN "True" ELSE "False">>), flag)

\* The tables each controller's check_petab_lint hands to the PEtab linter.
lint_dependencies(t) ==
    CASE t = "measurement" -> {"observable"}
      [] t = "observable" -> {}
      [] t = "condition" -> {"observable", "sbml"}
      [] t = "parameter" -> {"observable", "measurement", "condition", "sbml"}

\* TableController.validate_changed_cell. The linter is an external library:
\* ok tells that check_petab_lint returned, ~ok that it raised; the exceptions
\* of PEtab's checks carry a message, so str(e) is taken to be non-empty.
validate_changed_cell(c, t, row, column, ok) ==
    LET linted == [c EXCEPT !.lints = Append(@,
                      [table |-> t, row |-> row, ok |-> ok,
                       deps |-> lint_dependencies(t),
                       observable_index |-> c.df["observable"].index])]
        cleared == [linted EXCEPT !.invalid[t] =
                      @ \ {<<row, col>> : col \in 0..(columnCount(t, c.df[t]) - 1)}]
    IN IF ok
       THEN discard_invalid_cell(cleared, t, row, column)
       ELSE add_invalid_cell(Log(linted, "lint_failed", "red"), t, row, column)

\* df.at[label, column] raises KeyError for a missing label or column
AtRaises(f, label, column) == label \notin Range(f.index) \/ ~HasColumn(f, column)
At(f, label, column) ==
    f.data[CHOOSE i \in DOMAIN f.index : f.index[i] = label][ColPos(f, column)]
AtSet(f, label, column, v) ==
    [f EXCEPT !.data = [i \in DOMAIN f.data |->
        IF f.index[i] = label
        THEN [f.data[i] EXCEPT ![ColPos(f, column)] = v] ELSE f.data[i]]]

RECURSIVE rename_loop(_, _, _, _, _)
\* for row in range(rows): if df.at[row, "observableId"] == old_id: ... = new_id
rename_loop(f, row, rows, old_id, new_id) ==
    IF row >= rows THEN [f |-> f, raised |-> FALSE]
    ELSE IF AtRaises(f, IntLabel(row), "observableId")
         THEN [f |-> f, raised |-> TRUE]
         ELSE rename_loop(
                IF At(f, IntLabel(row), "observableId") = old_id
                THEN AtSet(f, IntLabel(row), "observableId", new_id) ELSE f,
                row + 1, rows, old_id, new_id)

\* MeasurementController.rename_observable, slot of observable_2be_renamed
rename_observable(c, old_id, new_id) ==
    LET r == rename_loop(c.df["measurement"], 0, NRows(c.df["measurement"]),
                         old_id, new_id)
        c1 == [c EXCEPT !.df["measurement"] = r.f]
    IN IF r.raised THEN c1 ELSE something_changed(c1, TRUE)

\* maybe_rename_observable that renames whatever the user replies
maybe_rename_observable_unasked(c0, new_id, old_id, reply) ==
    rename_observable(
        Emit(Log(Use(c0, "reply"), "renaming_observable", "green"),
             <<"observable_2be_renamed", old_id, new_id>>),
        old_id, new_id)

\* ObservableController.maybe_rename_observable, slot of the observable
\* model's observable_id_changed; reply is the user's answer to the prompt
maybe_rename_observable(c0, new_id, old_id, reply) ==
    LET c == Use(c0, "reply")
    IN IF reply = "Yes"
       THEN rename_observable(
               Emit(Log(c, "renaming_observable", "green"),
                    <<"observable_2be_renamed", old_id, new_id>>),
               old_id, new_id)
       ELSE c

\* ObservableModel.fill_row: the id goes to the index, the other columns get
\* the given data or ""; a column named observableId is absent from the dict
\* that is assigned and so becomes NaN
ObservableModel_fill_row(f, row_position, data) ==
    LET value(col) == IF col = "observableId" THEN "nan"
                      ELSE IF col \in DOMAIN data THEN data[col] ELSE ""
    IN [f EXCEPT !.index[row_position + 1] = data["observableId"],
                 !.data[row_position + 1] =
                        [j \in DOMAIN f.columns |-> value(f.columns[j])]]

\* ObservableController.maybe_add_observable, slot of the measurement model's
\* observable_id_changed; ok is the linter's verdict on the added row
maybe_add_observable(c, observable_id, ok) ==
    LET f == c.df["observable"]
    IN IF observable_id \in Range(f.index) THEN c
       ELSE LET f1 == insertRows(f, 1)
                f2 == ObservableModel_fill_row(f1, NRows(f1) - 1,
                                               [observableId |-> observable_id])
                c1 == [c EXCEPT !.df["observable"] = f2]
                c2 == validate_changed_cell(Use(c1, "ok_added"), "observable",
                                            NRows(f2) - 1, 0, ok)
            IN Log(c2, "added_observable", "green")

-----------------------------------------------------------------------------
(* petab_gui: PandasTableModel.setData and its slots *)

\* The answers of the environment during one handler: the linter's verdict on
\* the rows of the edited or filled table (ok), on an automatically added
\* observable row (ok_added) and on an automatically added condition row
\* (ok_condition), the user's reply to the rename prompt, whether a
\* Signal(str, str) takes an int argument (emit_int: the old label of a freshly
\* inserted row), and whether pandas holds the measurement frame in a single
\* block when a dict is assigned to one of its rows (single_block).
Answers ==
    [ok : BOOLEAN, ok_added : BOOLEAN, ok_condition : BOOLEAN,
     reply : {"Yes", "No"}, emit_int : BOOLEAN, single_block : BOOLEAN,
     close_reply : {"Save", "Discard", "Cancel"},
     formula_ok : BOOLEAN]
DefaultAnswers ==
    [ok |-> TRUE, ok_added |-> TRUE, ok_condition |-> TRUE, reply |-> "No",
     emit_int |-> TRUE, single_block |-> TRUE, close_reply |-> "Cancel",
     formula_ok |-> TRUE]
\* an answer the handler never asked for is not a separate case
Canonical(o, used) == \A a \in (DOMAIN o) \ used : o[a] = DefaultAnswers[a]
\* the answers that differ from the default ones only in what was asked
AnswersTo(asked) ==
    LET among(a, values) == IF a \in asked THEN values ELSE {DefaultAnswers[a]}
    IN [ok : among("ok", BOOLEAN), ok_added : among("ok_added", BOOLEAN),
        ok_condition : among("ok_condition", BOOLEAN),
        reply : among("reply", {"Yes", "No"}),
        emit_int : among("emit_int", BOOLEAN),
        single_block : among("single_block", BOOLEAN),
        close_reply : among("close_reply", {"Save", "Discard", "Cancel"}),
        formula_ok : among("formula_ok", BOOLEAN)]

IsInt(label) == label \in Range(IntLabels)

\* self.new_log_message.emit(message, color="red"): a signal's emit takes no
\* keyword argument, so the call raises TypeError where the handler meant to
\* log and return False; no slot is connected to the signal either
new_log_message(c) == Ret(c, "raise")

\* the slots connected to observable_id_changed(new, old):
\* measurement model -> maybe_add_observable, observable model -> maybe_rename_observable
observable_id_changed(c, t, new_id, old_id, o) ==
    LET c1 == Emit(c, <<"observable_id_changed", new_id, old_id>>)
    IN CASE t = "measurement" -> maybe_add_observable(c1, new_id, o.ok_added)
         [] t = "observable" -> maybe_rename_observable(c1, new_id, old_id, o.reply)
         [] OTHER -> c1

\* IndexedPandasTableModel.handle_named_index
handle_named_index(c, t, row, value, o) ==
    LET f == c.df[t]
        old_value == f.index[row + 1]
    IN IF value = old_value THEN Ret(c, "False")
       ELSE IF value \in Range(f.index)
       THEN new_log_message(c)
       ELSE LET c1 == [c EXCEPT !.df[t] = RenameIndex(f, old_value, value)]
            IN IF IsInt(old_value) /\ ~o.emit_int
               THEN \* emit raised inside the try: the rename stays, and the
                    \* except branch goes on to new_log_message.emit
                    new_log_message(Use(c1, "emit_int"))
               ELSE LET c2 == observable_id_changed(
                                IF IsInt(old_value) THEN Use(c1, "emit_int") ELSE c1,
                                t, value, old_value, o)
                        c3 == validate_changed_cell(Use(c2, "ok"), t, row, 0, o.ok)
                    IN Ret(something_changed(c3, TRUE), "True")

\* PandasTableModel.setData(index(row, column), value, Qt.EditRole)
setData(c0, t, row, column, value, o) ==
    LET col_setoff == IF has_named_index(t) THEN 1 ELSE 0
        trailing == row = NRows(c0.df[t])
        c1 == IF trailing
              THEN Emit([c0 EXCEPT !.df[t] = insertRows(@, 1)], <<"inserted_row">>)
              ELSE c0
        f1 == c1.df[t]
    IN IF row >= NRows(f1) THEN Ret(c1, "raise")  \* IndexError: no row was appended
       ELSE IF column = 0 /\ has_named_index(t)
       THEN handle_named_index(c1, t, row, value, o)
       ELSE
         LET column_name == f1.columns[column - col_setoff + 1]
             old_value == Iloc(f1, row, column - col_setoff)
             expected_type == DictGet(allowed_columns(t), column_name)
             v == validate_value(value, expected_type)
         IN IF value = old_value THEN Ret(c1, "False")
            ELSE IF column_name = "observableId"
            THEN LET c2 == [c1 EXCEPT !.df[t] =
                               IlocSet(@, row, column - col_setoff, value)]
                     c3 == observable_id_changed(c2, t, value, old_value, o)
                     c4 == validate_changed_cell(Use(c3, "ok"), t, row, column, o.ok)
                 IN Ret(something_changed(c4, TRUE), "True")
            ELSE IF expected_type # "None" /\ v.error
            THEN new_log_message(c1)
            ELSE LET c2 == [c1 EXCEPT !.df[t] =
                               IlocSet(@, row, column - col_setoff, v.value)]
                     c3 == validate_changed_cell(Use(c2, "ok"), t, row, column, o.ok)
                 IN Ret(something_changed(c3, TRUE), "True")

-----------------------------------------------------------------------------
(* petab_gui: the other handlers of TableController and MainController *)

\* TableController.overwrite_df: the uploaded frame replaces _data_frame as
\* read (RangeIndex, the id an ordinary column); overwritten_df has no slot
overwrite_df(c, t, new_df) ==
    Emit(Log([c EXCEPT !.df[t] = new_df], "overwrote_table", "green"),
         <<"overwritten_df">>)

\* TableController.upload_and_overwrite_table; file is what the path names:
\* its suffix, whether pandas can read it, and the frame read_csv returns
upload_and_overwrite_table(c, t, file) ==
    IF file.suffix \notin {".csv", ".tsv"}
    THEN Log(c, "unsupported_format", "red")
    ELSE IF ~file.readable
    THEN Ret(c, "raise")       \* self.view.log_message: TableViewer has none
    ELSE overwrite_df(c, t, file.frame)

\* TableController.replace_text; something_changed.emit() lacks its argument
replace_text(c, t, find_text, new_text) ==
    Ret([Log(c, "replacing", "green") EXCEPT !.df[t] = Replace(@, find_text, new_text)],
        "raise")

\* TableController.delete_row: self.view.table is no attribute of TableViewer
delete_row(c, t, selected_rows) == Ret(c, "raise")

\* PEtabModel.save: problem.to_files(prefix_path=directory) names no file, and
\* to_files writes only the entities whose destination it was given
PEtabModel_save(c) == <<>>

\* MainController.save_model; file_name is "" when the dialog was cancelled
save_model(c, file_name) ==
    IF file_name = "" THEN c
    ELSE [c EXCEPT !.saved = TRUE, !.written = PEtabModel_save(c)]

\* a variant of maybe_close that lets the window close on Cancel
maybe_close_cancel_closes(c, file_name, o) ==
    IF ~c.unsaved_changes THEN Ret(c, "True")
    ELSE IF o.close_reply = "Save"
    THEN Ret(save_model(Use(c, "close_reply"), file_name), "True")
    ELSE Ret(Use(c, "close_reply"), "True")

\* MainController.maybe_close; the result is the value it leaves in
\* view.allow_close, which every branch assigns
maybe_close(c, file_name, o) ==
    IF ~c.unsaved_changes THEN Ret(c, "True")
    ELSE IF o.close_reply = "Save"
    THEN Ret(save_model(Use(c, "close_reply"), file_name), "True")
    ELSE IF o.close_reply = "Discard" THEN Ret(Use(c, "close_reply"), "True")
    ELSE Ret(Use(c, "close_reply"), "False")

\* MainWindow.closeEvent of views/main_view.py: closing_signal is connected
\* to maybe_close, and the event is accepted iff allow_close
closeEvent(c, file_name, o) ==
    LET c1 == maybe_close(c, file_name, o)
    IN IF c1.ret = "True" THEN [Ret(c1, "accept") EXCEPT !.window = "closed"]
       ELSE Ret(c1, "ignore")

-----------------------------------------------------------------------------
(* petab_gui: MeasurementController's data-matrix upload *)

\* the names load_data_matrix accepts for the time column, in its order
TimeNames == <<"Time", "time", "t">>
has_time_column(columns) == \E i \in DOMAIN TimeNames : TimeNames[i] \in Range(columns)
\* next(col for col in ["Time", "time", "t"] if col in data_matrix.columns)
time_column(columns) ==
    TimeNames[CHOOSE i \in DOMAIN TimeNames :
                /\ TimeNames[i] \in Range(columns)
                /\ \A j \in 1..(i - 1) : TimeNames[j] \notin Range(columns)]
\* data_matrix.rename(columns={time_column: "time"})
rename_time_column(matrix) ==
    [matrix EXCEPT !.columns = [j \in DOMAIN matrix.columns |->
        IF matrix.columns[j] = time_column(matrix.columns) THEN "time"
        ELSE matrix.columns[j]]]
\* row[name] of the i-th row of the data matrix
MatrixCell(matrix, i, name) ==
    matrix.rows[i][CHOOSE j \in DOMAIN matrix.columns : matrix.columns[j] = name]

\* MeasurementModel.fill_row when the frame is held in a single block: the
\* dict is aligned with the columns by key, a key that is no column is dropped
MeasurementModel_fill_row(f, row_position, data) ==
    [f EXCEPT !.data[row_position + 1] = [j \in DOMAIN f.columns |->
        IF f.columns[j] \in DOMAIN data THEN data[f.columns[j]] ELSE ""]]

RECURSIVE fill_rows(_, _, _, _, _, _)
\* for i_row, (_, row) in enumerate(data_matrix.iterrows()): self.model.fill_row(...)
fill_rows(f, matrix, i_row, current_rows, observable_id, condition_id) ==
    IF i_row >= Len(matrix.rows) THEN f
    ELSE fill_rows(
            MeasurementModel_fill_row(f, i_row + current_rows,
                [observable_id |-> observable_id,
                 time |-> MatrixCell(matrix, i_row + 1, "time"),
                 measurement |-> MatrixCell(matrix, i_row + 1, observable_id),
                 simulationConditionId |-> condition_id]),
            matrix, i_row + 1, current_rows, observable_id, condition_id)

\* MeasurementController.add_measurement_rows. The dict handed to fill_row has
\* the key observable_id besides the columns: held in several blocks, the
\* frame rejects it (ValueError: keys and value of unequal length), held in
\* one it aligns it. createIndex is then called with a generator: TypeError.
add_measurement_rows(c, matrix, observable_id, condition_id, o) ==
    LET f == c.df["measurement"]
        current_rows == NRows(f)
        c1 == Use([c EXCEPT !.df["measurement"] = insertRows(f, Len(matrix.rows))],
                  "single_block")
    IN IF ~o.single_block THEN Ret(c1, "raise")
       ELSE Ret([c1 EXCEPT !.df["measurement"] =
                    fill_rows(@, matrix, 0, current_rows, observable_id, condition_id)],
                "raise")

RECURSIVE populate_tables_from_data_matrix(_, _, _, _, _)
\* MeasurementController.populate_tables_from_data_matrix, from column j on;
\* possibly_new_condition and possibly_new_observable have no slot
populate_tables_from_data_matrix(c, matrix, j, condition_id, o) ==
    IF j > Len(matrix.columns) \/ c.ret = "raise" THEN c
    ELSE IF matrix.columns[j] = "time"
    THEN populate_tables_from_data_matrix(c, matrix, j + 1, condition_id, o)
    ELSE populate_tables_from_data_matrix(
            add_measurement_rows(
                Emit(Emit(c, <<"possibly_new_condition", matrix.columns[j]>>),
                     <<"possibly_new_observable", condition_id>>),
                matrix, matrix.columns[j], condition_id, o),
            matrix, j + 1, condition_id, o)

\* MeasurementController.process_data_matrix_file with load_data_matrix; file
\* is what the path names: whether pandas reads it, its columns and its rows.
\* After the loop something_changed.emit() lacks its argument: TypeError.
process_data_matrix_file(c, file, o) ==
    IF ~file.readable THEN Log(c, "data_matrix_failed", "red")
    ELSE IF ~has_time_column(file.columns) THEN Log(c, "invalid_file", "red")
    ELSE IF file.rows = <<>> THEN c
    ELSE Ret(Log(populate_tables_from_data_matrix(
                    c, rename_time_column(file), 1, "cond1", o),
                 "data_matrix_failed", "red"),
             "None")

-----------------------------------------------------------------------------
(* The SBML <-> Antimony converter and petab_gui's SBML model *)

\* te.sbmlToAntimony / te.antimonyToSBML on the texts used here; "raise" when
\* the converter rejects the text
sbmlToAntimony(text) ==
    CASE text = "sbml0" -> "ant0"
      [] text = "sbml1" -> "ant1"
      [] OTHER -> "raise"
antimonyToSBML(text) ==
    CASE text = "ant0" -> "sbml0"
      [] text = "ant1" -> "sbml1"
      [] OTHER -> "raise"

\* SbmlViewerModel.convert_sbml_to_antimony of petab_gui; its something_changed
\* is connected to MainController.unsaved_changes_change
convert_sbml_to_antimony(c) ==
    IF sbmlToAntimony(c.sbml.sbml_text) = "raise" THEN Ret(c, "raise")
    ELSE something_changed(
            [c EXCEPT !.sbml.antimony_text = sbmlToAntimony(c.sbml.sbml_text)], TRUE)

\* SbmlViewerModel.convert_antimony_to_sbml of petab_gui
convert_antimony_to_sbml(c) ==
    IF antimonyToSBML(c.sbml.antimony_text) = "raise" THEN Ret(c, "raise")
    ELSE something_changed(
            [c EXCEPT !.sbml.sbml_text = antimonyToSBML(c.sbml.antimony_text)], TRUE)

\* SbmlController.update_antimony_from_sbml of petab_gui: the text of the SBML
\* pane is converted and the Antimony pane shows the result; a text the
\* converter rejects is reported to the log and nothing changes
SbmlController_update_antimony_from_sbml(c, text) ==
    LET c1 == convert_sbml_to_antimony(
                 [c EXCEPT !.sbml.sbml_text = text, !.sbml.sbml_text_edit = text])
    IN IF c1.ret = "raise" THEN Log(c, "conversion_failed", "red")
       ELSE Log([c1 EXCEPT !.sbml.antimony_text_edit = c1.sbml.antimony_text],
                "converting", "green")

\* SbmlController.update_sbml_from_antimony of petab_gui, symmetrically
SbmlController_update_sbml_from_antimony(c, text) ==
    LET c1 == convert_antimony_to_sbml(
                 [c EXCEPT !.sbml.antimony_text = text,
                           !.sbml.antimony_text_edit = text])
    IN IF c1.ret = "raise" THEN Log(c, "conversion_failed", "red")
       ELSE Log([c1 EXCEPT !.sbml.sbml_text_edit = c1.sbml.sbml_text],
                "converting", "green")

\* SbmlController.upload_and_overwrite_sbml; file is what the path names:
\* whether it is an SBML file that loads, and its text. A file that does not
\* load is reported to the log and nothing changes.
SbmlController_upload_and_overwrite_sbml(c, file) ==
    LET c1 == convert_sbml_to_antimony([c EXCEPT !.sbml.sbml_text = file.text])
    IN IF ~file.ok \/ c1.ret = "raise"
       THEN Log(c, "sbml_upload_failed", "red")
       ELSE Log(c1, "sbml_uploaded", "green")

\* the order in which upload_yaml_and_load_files loads the table files
YamlTableOrder == <<"measurement", "observable", "parameter", "condition">>

RECURSIVE upload_tables(_, _, _)
\* the four upload_and_overwrite_table calls; an exception ends the sequence
upload_tables(c, table_files, order) ==
    IF order = <<>> \/ c.ret = "raise" THEN c
    ELSE upload_tables(
            upload_and_overwrite_table(c, Head(order), table_files[Head(order)]),
            table_files, Tail(order))

\* MainController.upload_yaml_and_load_files; yaml is what the dialog returns:
\* the path ("" when cancelled), whether the file parses and names its five
\* files, and what those files are
upload_yaml_and_load_files(c, yaml) ==
    IF yaml.path = "" THEN c
    ELSE IF ~yaml.readable THEN Log(c, "yaml_failed", "red")
    ELSE LET c1 == SbmlController_upload_and_overwrite_sbml(c, yaml.sbml_file)
             c2 == upload_tables(c1, yaml.table_files, YamlTableOrder)
         IN IF c2.ret = "raise"
            THEN Ret(Log(c2, "yaml_failed", "red"), "None")
            ELSE [Log(c2, "yaml_loaded", "green") EXCEPT !.unsaved_changes = FALSE]

-----------------------------------------------------------------------------
(* penGUI: penGUI_model.PandasTableModel and penGUI_controller.Controller *)

\* set_dtypes: astype(float) of a NUMERIC column raises ValueError for a str
\* that is no number; astype(str) and astype(bool) never raise
astype_float_raises(v) ==
    v \in {"", "a", "b"}
set_dtypes_raises(columns, cells, allowed) ==
    \E j \in DOMAIN columns :
        /\ DictGet(allowed, columns[j]) = "NUMERIC"
        /\ astype_float_raises(cells[j])

penGUI_allowed_columns(t) ==
    CASE t = "measurement" -> MEASUREMENT_COLUMNS
      [] t = "observable" -> OBSERVABLE_COLUMNS
      [] t = "parameter" -> PARAMETER_COLUMNS
      [] t = "condition" -> CONDITION_COLUMNS

\* the tables PandasTableModel.check_petab_lint hands to the PEtab linter
penGUI_lint_dependencies(t) ==
    CASE t = "measurement" -> {"observable"}
      [] t = "observable" -> {}
      [] t = "condition" -> {"condition"}
      [] t = "parameter" -> {"observable", "measurement", "condition"}

\* PandasTableModel.check_petab_lint: set_index(id column) raises KeyError
\* without that column, which counts as a failed lint; else ok is the verdict
penGUI_check_petab_lint(f, t, ok) ==
    IF t \in IndexedTables /\ ~HasColumn(f, IdColumn(t)) THEN FALSE ELSE ok

\* PandasTableModel.validate_changed_cell
penGUI_validate_changed_cell(c, t, row, column, ok) ==
    LET f == c.df[t]
        passed == penGUI_check_petab_lint(f, t, ok)
        linted == [c EXCEPT !.lints = Append(@,
                      [table |-> t, row |-> row, ok |-> passed,
                       deps |-> penGUI_lint_dependencies(t),
                       observable_index |-> c.df["observable"].index])]
        cleared == [linted EXCEPT !.invalid[t] =
                      @ \ {<<row, col>> : col \in 0..(NCols(f) - 1)}]
    IN IF set_dtypes_raises(f.columns, f.data[row + 1], penGUI_allowed_columns(t))
       THEN Ret(c, "raise")
       ELSE IF passed
       THEN discard_invalid_cell(cleared, t, row, column)
       ELSE add_invalid_cell(Log(linted, "lint_failed", "red"), t, row, column)

\* Controller.rename_observable_in_measurements; a KeyError of df.at ends the
\* slot half-way (what was renamed stays renamed)
rename_observable_in_measurements(c, old_id, new_id) ==
    LET r == rename_loop(c.df["measurement"], 0, NRows(c.df["measurement"]),
                         old_id, new_id)
        c1 == [c EXCEPT !.df["measurement"] = r.f]
    IN IF r.raised THEN c1 ELSE [c1 EXCEPT !.unsaved_changes = TRUE]

\* Controller.handle_observable_id_change, slot of the observable model's
\* observable_id_changed(old_id, new_id)
handle_observable_id_change(c0, old_id, new_id, reply) ==
    LET c == Use(c0, "reply")
    IN IF reply = "Yes"
       THEN rename_observable_in_measurements(
               Log(c, "renaming_observable", "green"), old_id, new_id)
       ELSE c

\* PandasTableModel.setData of penGUI_model
penGUI_setData(c, t, row, column, value, o) ==
    LET f == c.df[t]
        column_name == f.columns[column + 1]
        old_value == Iloc(f, row, column)
        expected_type == DictGet(penGUI_allowed_columns(t), column_name)
        v == validate_value(value, expected_type)
        validated(c1) ==
            LET c2 == penGUI_validate_changed_cell(Use(c1, "ok"), t, row, column, o.ok)
            IN IF c2.ret = "raise" THEN c2 ELSE Ret(c2, "True")
    IN IF column_name = "observableId"
       THEN LET c1 == [c EXCEPT !.df[t] = IlocSet(@, row, column, value)]
                c2 == Emit(c1, <<"observable_id_changed", old_value, value>>)
            IN validated(IF PyEq(old_value, value) THEN c1
                         ELSE IF t = "observable"
                         THEN handle_observable_id_change(c2, old_value, value, o.reply)
                         ELSE c2)
       ELSE IF expected_type # "None" /\ v.error
       THEN Ret(Log(c, "type_error", "red"), "False")
       ELSE LET c1 == [c EXCEPT !.df[t] = IlocSet(@, row, column, v.value)]
            IN validated(IF PyEq(old_value, v.value) THEN c1
                         ELSE [c1 EXCEPT !.unsaved_changes = TRUE])

RECURSIVE delete_loop(_, _, _)
\* for row in sorted(selected_rows, reverse=True): iloc[row] is read for the
\* log message (IndexError), then drop(row) removes the label row (KeyError)
delete_loop(c, t, rows) ==
    IF rows = <<>> THEN c
    ELSE LET f == c.df[t]
             row == Head(rows)
         IN IF row >= NRows(f) THEN Ret(c, "raise")
            ELSE IF DropRaises(f, IntLabel(row))
            THEN Ret(Log(c, "deleted_row", "orange"), "raise")
            ELSE delete_loop([Log(c, "deleted_row", "orange") EXCEPT
                                 !.df[t] = Drop(f, IntLabel(row))],
                             t, Tail(rows))

\* Controller.delete_row(table_index, selected_rows); t is "none" when the
\* task-bar action finds no table with the focus and a selection:
\* get_current_table_index logs and returns None, and tables[None] raises
penGUI_delete_row(c, t, selected_rows) ==
    IF t = "none" THEN Ret(Log(c, "no_active_table", "orange"), "raise")
    ELSE IF selected_rows = <<>> THEN c
    ELSE LET c1 == delete_loop(c, t, SortedReverse(selected_rows))
         IN IF c1.ret = "raise" THEN c1
            ELSE [c1 EXCEPT !.df[t] = ResetIndex(@), !.unsaved_changes = TRUE]

\* df.to_csv(index=False): the columns and the cells, without the index
to_csv(f) == [columns |-> f.columns, data |-> f.data]
ArchiveName(t) ==
    CASE t = "measurement" -> "measurement.csv"
      [] t = "observable" -> "observable.csv"
      [] t = "parameter" -> "parameter.csv"
      [] t = "condition" -> "condition.csv"
ArchiveNames == {ArchiveName(t) : t \in Tables} \cup {"model.xml"}

\* Controller.save_model; file_name is "" when the dialog was cancelled
penGUI_save_model(c, file_name) ==
    IF file_name = "" THEN c
    ELSE [c EXCEPT !.saved = TRUE,
                   !.written = [name \in ArchiveNames |->
                       IF name = "model.xml" THEN [text |-> c.sbml.sbml_text]
                       ELSE to_csv(c.df[CHOOSE t \in Tables : ArchiveName(t) = name])]]

\* MainWindow.closeEvent of penGUI_view.py
penGUI_closeEvent(c, file_name, o) ==
    IF c.unsaved_changes
    THEN IF o.close_reply = "Save"
         THEN [Ret(penGUI_save_model(Use(c, "close_reply"), file_name), "accept")
                  EXCEPT !.window = "closed"]
         ELSE IF o.close_reply = "Discard"
         THEN [Ret(Use(c, "close_reply"), "accept") EXCEPT !.window = "closed"]
         ELSE Ret(Use(c, "close_reply"), "ignore")
    ELSE [Ret(c, "accept") EXCEPT !.window = "closed"]

\* Controller.overwrite_table
overwrite_table(c, t, new_df) ==
    [Log([c EXCEPT !.df[t] = new_df], "overwrote_table", "green")
        EXCEPT !.unsaved_changes = TRUE]

\* Controller.upload_and_overwrite_table: both error branches call
\* self.view.log_message, which penGUI_view.MainWindow does not define
penGUI_upload_and_overwrite_table(c, t, file) ==
    IF file.suffix \notin {".csv", ".tsv"} THEN Ret(c, "raise")
    ELSE IF ~file.readable THEN Ret(c, "raise")
    ELSE overwrite_table(c, t, file.frame)

\* SbmlViewerModel.convert_sbml_to_antimony / convert_antimony_to_sbml of
\* penGUI_model: the converter raises before the assignment
penGUI_convert_sbml_to_antimony(c) ==
    IF sbmlToAntimony(c.sbml.sbml_text) = "raise" THEN Ret(c, "raise")
    ELSE [c EXCEPT !.sbml.antimony_text = sbmlToAntimony(c.sbml.sbml_text)]
penGUI_convert_antimony_to_sbml(c) ==
    IF antimonyToSBML(c.sbml.antimony_text) = "raise" THEN Ret(c, "raise")
    ELSE [c EXCEPT !.sbml.sbml_text = antimonyToSBML(c.sbml.antimony_text)]

\* Controller.upload_and_overwrite_sbml
penGUI_upload_and_overwrite_sbml(c, file) ==
    LET c1 == [c EXCEPT !.sbml.sbml_text = file.text, !.sbml.original = file.text]
        c2 == penGUI_convert_sbml_to_antimony(c1)
    IN IF ~file.ok THEN Log(c, "sbml_upload_failed", "red")
       ELSE IF c2.ret = "raise" THEN Log(c1, "sbml_upload_failed", "red")
       ELSE Log([c2 EXCEPT !.sbml.sbml_text_edit = c2.sbml.sbml_text,
                           !.sbml.antimony_text_edit = c2.sbml.antimony_text],
                "sbml_uploaded", "green")

RECURSIVE penGUI_upload_tables(_, _, _)
\* for table_name, table_index, table_file in table_files: ...
penGUI_upload_tables(c, table_files, order) ==
    IF order = <<>> \/ c.ret = "raise" THEN c
    ELSE penGUI_upload_tables(
            penGUI_upload_and_overwrite_table(c, Head(order), table_files[Head(order)]),
            table_files, Tail(order))

\* Controller.upload_yaml_and_load_files
penGUI_upload_yaml_and_load_files(c, yaml) ==
    IF yaml.path = "" THEN c
    ELSE IF ~yaml.readable THEN Log(c, "yaml_failed", "red")
    ELSE LET c1 == penGUI_upload_and_overwrite_sbml(c, yaml.sbml_file)
             c2 == penGUI_upload_tables(c1, yaml.table_files, YamlTableOrder)
         IN IF c2.ret = "raise"
            THEN Ret(Log(c2, "yaml_failed", "red"), "None")
            ELSE [Log(c2, "yaml_loaded", "green") EXCEPT !.unsaved_changes = FALSE]

\* Controller.update_antimony_from_sbml; the SBML pane holds what the user
\* has typed into it
\* a variant of update_antimony_from_sbml that leaves the Antimony pane alone
update_antimony_from_sbml_pane_stale(c) ==
    LET c1 == [c EXCEPT !.sbml.sbml_text = c.sbml.sbml_text_edit]
        c2 == penGUI_convert_sbml_to_antimony(c1)
    IN IF c2.ret = "raise" THEN Log(c1, "conversion_failed", "red")
       ELSE [Log(c2, "converting", "green") EXCEPT !.unsaved_changes = TRUE]

\* Controller.update_antimony_from_sbml
update_antimony_from_sbml(c) ==
    LET c1 == [c EXCEPT !.sbml.sbml_text = c.sbml.sbml_text_edit]
        c2 == penGUI_convert_sbml_to_antimony(c1)
    IN IF c2.ret = "raise" THEN Log(c1, "conversion_failed", "red")
       ELSE [Log(c2, "converting", "green") EXCEPT
                !.sbml.antimony_text_edit = c2.sbml.antimony_text,
                !.unsaved_changes = TRUE]

\* Controller.update_sbml_from_antimony
\* Controller.update_sbml_from_antimony
update_sbml_from_antimony(c) ==
    LET c1 == [c EXCEPT !.sbml.antimony_text = c.sbml.antimony_text_edit]
        c2 == penGUI_convert_antimony_to_sbml(c1)
    IN IF c2.ret = "raise" THEN Log(c1, "conversion_failed", "red")
       ELSE [Log(c2, "converting", "green") EXCEPT
                !.sbml.sbml_text_edit = c2.sbml.sbml_text,
                !.unsaved_changes = TRUE]

-----------------------------------------------------------------------------
(* copy_noise_parameters of both implementations *)

\* the data rows (counted from 1) of f whose column name holds value, as the
\* boolean mask f[f[name] == value] selects them
Matching(f, rows, name, value) == {i \in rows : f.data[i][ColPos(f, name)] = value}
Min(S) == CHOOSE i \in S : \A j \in S : i <= j

\* MeasurementController.copy_noise_parameters: the controller's self.model is
\* the measurement table model handed to TableController.__init__, which has
\* no attribute measurement, so the first statement raises AttributeError
copy_noise_parameters(c, observable_id, condition_id) == Ret(c, "raise")

\* f[name].iloc[0] of the rows selected from f; a missing column is a KeyError
first_of(c, f, rows, name) ==
    IF ~HasColumn(f, name) THEN Ret(c, "raise")
    ELSE Ret(c, f.data[Min(rows)][ColPos(f, name)])

\* copy_noise_parameters below its first test, matching_rows being not empty
copy_from_matching(c, f, matching_rows, condition_id) ==
    IF condition_id = "" THEN first_of(c, f, matching_rows, "noiseParameters")
    ELSE IF ~HasColumn(f, "simulationConditionId") THEN Ret(c, "raise")
    ELSE IF Matching(f, matching_rows, "simulationConditionId", condition_id) # {}
    THEN first_of(c, f, Matching(f, matching_rows, "simulationConditionId",
                                 condition_id), "noiseParameters")
    ELSE first_of(c, f, matching_rows, "noiseParameters")

\* Controller.copy_noise_parameters of penGUI
penGUI_copy_noise_parameters(c, observable_id, condition_id) ==
    IF ~HasColumn(c.df["measurement"], "observableId") THEN Ret(c, "raise")
    ELSE IF Matching(c.df["measurement"], DOMAIN c.df["measurement"].data,
                     "observableId", observable_id) = {}
    THEN Ret(c, "")
    ELSE copy_from_matching(c, c.df["measurement"],
                            Matching(c.df["measurement"],
                                     DOMAIN c.df["measurement"].data,
                                     "observableId", observable_id),
                            condition_id)

-----------------------------------------------------------------------------
(* penGUI: row addition and the data-matrix upload *)

\* the tables Controller.check_petab_lint hands to the PEtab linter
Controller_lint_dependencies(t) ==
    CASE t = "measurement" -> {"observable"}
      [] t = "observable" -> {}
      [] t = "parameter" -> {"sbml", "observable", "measurement", "condition"}
      [] t = "condition" -> {"sbml", "observable"}

\* f"noiseParameter1_{kwargs.get('observableId')}" for the ids used here
noise_formula(observable_id) ==
    CASE observable_id = "a" -> "noiseParameter1_a"
      [] observable_id = "b" -> "noiseParameter1_b"
      [] observable_id = "c" -> "noiseParameter1_c"
      [] observable_id = "1" -> "noiseParameter1_1"
      [] OTHER -> "noiseParameter1_None"

\* kwargs.get(key), kwargs a sequence of <<key, value>> pairs
KwargsGet(kwargs, key) ==
    IF \E i \in DOMAIN kwargs : kwargs[i][1] = key
    THEN kwargs[CHOOSE i \in DOMAIN kwargs : kwargs[i][1] = key][2]
    ELSE "None"

\* the table-specific defaults of add_row_with_defaults, as <<column, value>>
\* pairs in the order of the assignments; each applies if the column exists
table_defaults(t, kwargs) ==
    CASE t = "observable" ->
            << <<"noiseFormula", noise_formula(KwargsGet(kwargs, "observableId"))>>,
               <<"observableTransformation", "lin">>,
               <<"noiseDistribution", "normal">> >>
            \o (IF KwargsGet(kwargs, "observableId") # "None"
                THEN << <<"observableName", KwargsGet(kwargs, "observableId")>> >>
                ELSE <<>>)
      [] t = "parameter" ->
            (IF KwargsGet(kwargs, "parameterId") # "None"
             THEN << <<"parameterName", KwargsGet(kwargs, "parameterId")>> >>
             ELSE <<>>)
            \o << <<"parameterScale", "log10">>, <<"lowerBound", "float:1e-08">>,
                  <<"upperBound", "float:1000.0">>, <<"estimate", "int:1">> >>
      [] OTHER -> <<>>

RECURSIVE set_columns(_, _, _, _)
\* self._data_frame.loc[new_index, column] = value, for each pair whose column exists
set_columns(f, label, pairs, i) ==
    IF i > Len(pairs) THEN f
    ELSE set_columns(
            IF HasColumn(f, pairs[i][1]) THEN AtSet(f, label, pairs[i][1], pairs[i][2])
            ELSE f,
            label, pairs, i + 1)

RECURSIVE set_kwargs(_, _, _, _, _)
\* the loop over kwargs: a value that fails validate_value ends it
set_kwargs(f, t, label, kwargs, i) ==
    IF i > Len(kwargs) THEN [f |-> f, error |-> FALSE]
    ELSE IF ~HasColumn(f, kwargs[i][1])
    THEN set_kwargs(f, t, label, kwargs, i + 1)
    ELSE LET expected_type == DictGet(penGUI_allowed_columns(t), kwargs[i][1])
             v == validate_value(kwargs[i][2], expected_type)
         IN IF expected_type # "None" /\ v.error THEN [f |-> f, error |-> TRUE]
            ELSE set_kwargs(
                    AtSet(f, label, kwargs[i][1],
                          IF expected_type # "None" THEN v.value ELSE kwargs[i][2]),
                    t, label, kwargs, i + 1)

\* PandasTableModel.validate_new_row; ok is the linter's verdict on the row
validate_new_row(c, t, row_index, ok) ==
    LET f == c.df[t]
        passed == penGUI_check_petab_lint(f, t, ok)
        linted == [c EXCEPT !.lints = Append(@,
                      [table |-> t, row |-> row_index, ok |-> passed,
                       deps |-> Controller_lint_dependencies(t),
                       observable_index |-> c.df["observable"].index])]
        row_cells == {<<row_index, col>> : col \in 0..(NCols(f) - 1)}
    IN IF row_index >= NRows(f) THEN Ret(c, "raise")   \* iloc: IndexError
       ELSE IF set_dtypes_raises(f.columns, f.data[row_index + 1],
                                 penGUI_allowed_columns(t))
       THEN Ret(c, "raise")
       ELSE IF passed THEN [linted EXCEPT !.invalid[t] = @ \ row_cells]
       ELSE [linted EXCEPT !.invalid[t] = @ \cup row_cells]

\* what a caller that ignores the callee's result goes on with: an exception
\* of the callee propagates, any other result is dropped
Propagate(c) == IF c.ret = "raise" THEN c ELSE Ret(c, "None")

\* the end of add_row_with_defaults, c being what validate_new_row left
row_added(c) ==
    IF c.ret = "raise" THEN c ELSE Ret([c EXCEPT !.unsaved_changes = TRUE], "True")

\* add_row_with_defaults after its loop over kwargs, whose outcome is r: a
\* rejected value abandons the row, otherwise the table-specific defaults are
\* set and the row is validated
add_row_after_kwargs(c, t, new_index, r, kwargs, ok) ==
    IF r.error
    THEN Ret([Log(c, "input_error", "red") EXCEPT
                 !.df[t] = Drop(r.f, IntLabel(new_index))], "False")
    ELSE row_added(validate_new_row(
            [c EXCEPT !.df[t] = set_columns(r.f, IntLabel(new_index),
                                            table_defaults(t, kwargs), 1)],
            t, new_index, ok))

\* PandasTableModel.add_row_with_defaults(**kwargs); new_index = len(df) is
\* used as a label by loc and drop and as a position by validate_new_row
add_row_with_defaults(c, t, kwargs, ok) ==
    add_row_after_kwargs(
        c, t, NRows(c.df[t]),
        set_kwargs(LocSetRow(c.df[t], IntLabel(NRows(c.df[t])), EmptyRow(c.df[t])),
                   t, IntLabel(NRows(c.df[t])), kwargs, 1),
        kwargs, ok)

\* df[name].values
ColumnValues(f, name) == {f.data[i][ColPos(f, name)] : i \in DOMAIN f.data}

\* Controller.ensure_observable_exists; df["observableId"] raises KeyError
\* when the frame has no such column
ensure_observable_exists(c, observable_id, o) ==
    IF ~HasColumn(c.df["observable"], "observableId") THEN Ret(c, "raise")
    ELSE IF observable_id \in ColumnValues(c.df["observable"], "observableId") THEN c
    ELSE Propagate(add_row_with_defaults(Use(c, "ok_added"), "observable",
                        << <<"observableId", observable_id>>,
                           <<"observableFormula", observable_id>> >>, o.ok_added))

\* Controller.ensure_condition_exists
ensure_condition_exists(c, condition_id, o) ==
    IF ~HasColumn(c.df["condition"], "conditionId") THEN Ret(c, "raise")
    ELSE IF condition_id \in ColumnValues(c.df["condition"], "conditionId") THEN c
    ELSE Propagate(add_row_with_defaults(Use(c, "ok_condition"), "condition",
                        << <<"conditionId", condition_id>>,
                           <<"conditionName", condition_id>> >>, o.ok_condition))

RECURSIVE penGUI_add_measurement_rows(_, _, _, _, _, _)
\* Controller.add_measurement_rows, from row i of the data matrix on
penGUI_add_measurement_rows(c, matrix, i, observable_id, condition_id, o) ==
    IF i > Len(matrix.rows) \/ c.ret = "raise" THEN c
    ELSE penGUI_add_measurement_rows(
            Propagate(add_row_with_defaults(Use(c, "ok"), "measurement",
                        << <<"observableId", observable_id>>,
                           <<"measurement", MatrixCell(matrix, i, observable_id)>>,
                           <<"time", MatrixCell(matrix, i, "time")>>,
                           <<"simulationConditionId", condition_id>> >>, o.ok)),
            matrix, i + 1, observable_id, condition_id, o)

\* the body of populate_tables_from_data_matrix's loop for one observable
\* column; c is what ensure_observable_exists left
populate_column(c, matrix, observable_id, condition_id, o) ==
    IF c.ret = "raise" THEN c
    ELSE penGUI_add_measurement_rows(ensure_condition_exists(c, condition_id, o),
                                     matrix, 1, observable_id, condition_id, o)

RECURSIVE penGUI_populate_tables_from_data_matrix(_, _, _, _, _)
\* Controller.populate_tables_from_data_matrix, from column j on
penGUI_populate_tables_from_data_matrix(c, matrix, j, condition_id, o) ==
    IF j > Len(matrix.columns) \/ c.ret = "raise" THEN c
    ELSE IF matrix.columns[j] = "time"
    THEN penGUI_populate_tables_from_data_matrix(c, matrix, j + 1, condition_id, o)
    ELSE penGUI_populate_tables_from_data_matrix(
            populate_column(ensure_observable_exists(c, matrix.columns[j], o),
                            matrix, matrix.columns[j], condition_id, o),
            matrix, j + 1, condition_id, o)

\* Controller.add_observable_if_missing: the formula dialog is accepted
\* (formula_ok) with the formula f, or cancelled
add_observable_if_missing(c, observable_id, o) ==
    IF ~HasColumn(c.df["observable"], "observableId") THEN Ret(c, "raise")
    ELSE IF observable_id \in ColumnValues(c.df["observable"], "observableId") THEN c
    ELSE IF ~o.formula_ok THEN Use(c, "formula_ok")
    ELSE Propagate(add_row_with_defaults(
            Use(Use(c, "formula_ok"), "ok_added"), "observable",
            << <<"observableId", observable_id>>, <<"observableFormula", "f">> >>,
            o.ok_added))

\* Controller.prompt_condition_details: the view is passed to
\* ConditionInputDialog in the place of initial_values, and the dialog's
\* "column in initial_values" raises TypeError on the first column that is
\* not conditionId; the caller passes at least one such column
prompt_condition_details(c, condition_id) == Ret(c, "raise")

\* Controller.add_condition_if_missing; an exception of the step before it
\* propagates; list.remove raises ValueError without a conditionName column
add_condition_if_missing(c, condition_id, o) ==
    IF c.ret = "raise" \/ condition_id = "" THEN c
    ELSE IF ~HasColumn(c.df["condition"], "conditionId") THEN Ret(c, "raise")
    ELSE IF condition_id \in ColumnValues(c.df["condition"], "conditionId") THEN c
    ELSE IF ~HasColumn(c.df["condition"], "conditionName") THEN Ret(c, "raise")
    ELSE IF NCols(c.df["condition"]) - 1 > 1
    THEN prompt_condition_details(c, condition_id)
    ELSE Propagate(add_row_with_defaults(
            Use(c, "ok_condition"), "condition",
            << <<"conditionId", condition_id>>, <<"conditionName", condition_id>> >>,
            o.ok_condition))

\* process_measurement_inputs after add_row_with_defaults, whose outcome is c
after_measurement_row(c, observable_id, condition_id, o) ==
    IF c.ret # "True" THEN Propagate(c)
    ELSE Propagate(add_condition_if_missing(
            add_observable_if_missing(c, observable_id, o), condition_id, o))

\* process_measurement_inputs after copy_noise_parameters, whose outcome is c
add_measurement_with_noise(c, observable_id, measurement, timepoints, condition_id, o) ==
    IF c.ret = "raise" THEN c
    ELSE add_row_with_defaults(
            Use(Ret(c, "None"), "ok"), "measurement",
            << <<"observableId", observable_id>>, <<"measurement", measurement>>,
               <<"time", timepoints>>, <<"simulationConditionId", condition_id>>,
               <<"noiseParameters", c.ret>> >>, o.ok)

\* Controller.process_measurement_inputs
process_measurement_inputs(c, observable_id, measurement, timepoints, condition_id, o) ==
    IF observable_id = "" \/ measurement = "" \/ timepoints = "" THEN c
    ELSE after_measurement_row(
            add_measurement_with_noise(
                penGUI_copy_noise_parameters(c, observable_id, condition_id),
                observable_id, measurement, timepoints, condition_id, o),
            observable_id, condition_id, o)

\* Controller.add_measurement_row: inputs is what the accepted dialog returns,
\* <<>> when the dialog was cancelled
add_measurement_row(c, inputs, o) ==
    IF ~HasColumn(c.df["condition"], "conditionId") THEN Ret(c, "raise")
    ELSE IF ~HasColumn(c.df["observable"], "observableId") THEN Ret(c, "raise")
    ELSE IF inputs = <<>> THEN c
    ELSE process_measurement_inputs(c, inputs[1], inputs[2], inputs[3], inputs[4], o)

\* Controller.add_observable_row: inputs is what the accepted dialog returns,
\* <<>> when the dialog was cancelled
add_observable_row(c, inputs, o) ==
    IF inputs = <<>> \/ inputs[1] = "" \/ inputs[2] = "" THEN c
    ELSE Propagate(add_row_with_defaults(
            Use(c, "ok"), "observable",
            << <<"observableId", inputs[1]>>, <<"observableFormula", inputs[2]>> >>,
            o.ok))

\* Controller.add_parameter_row; the nominal value is the text of its field
add_parameter_row(c, inputs, o) ==
    IF inputs = <<>> \/ inputs[1] = "" THEN c
    ELSE Propagate(add_row_with_defaults(
            Use(c, "ok"), "parameter",
            << <<"parameterId", inputs[1]>>, <<"nominalValue", inputs[2]>> >>,
            o.ok))

\* Controller.add_condition_row; inputs[1] is the text of the input dialog;
\* list.remove raises ValueError without a conditionName column
add_condition_row(c, inputs, o) ==
    IF inputs = <<>> \/ inputs[1] = "" THEN c
    ELSE IF ~HasColumn(c.df["condition"], "conditionName") THEN Ret(c, "raise")
    ELSE IF NCols(c.df["condition"]) - 1 > 1
    THEN prompt_condition_details(c, inputs[1])
    ELSE Propagate(add_row_with_defaults(
            Use(c, "ok"), "condition",
            << <<"conditionId", inputs[1]>>, <<"conditionName", inputs[1]>> >>,
            o.ok))

\* Controller.add_row(table_index), the slot of the Add Row buttons
penGUI_add_row(c, t, inputs, o) ==
    CASE t = "measurement" -> add_measurement_row(c, inputs, o)
      [] t = "observable" -> add_observable_row(c, inputs, o)
      [] t = "parameter" -> add_parameter_row(c, inputs, o)
      [] t = "condition" -> add_condition_row(c, inputs, o)

RECURSIVE replace_in_models(_, _, _, _)
\* the loop of Controller.replace_text over selected_models
replace_in_models(c, find_text, new_text, selected_models) ==
    IF selected_models = <<>> THEN c
    ELSE replace_in_models(
            [c EXCEPT !.df[Head(selected_models)] = Replace(@, find_text, new_text)],
            find_text, new_text, Tail(selected_models))

\* Controller.replace_text(find_text, replace_text, selected_models)
penGUI_replace_text(c, find_text, new_text, selected_models) ==
    [replace_in_models(Log(c, "replacing", "green"), find_text, new_text,
                       selected_models)
        EXCEPT !.unsaved_changes = TRUE]

\* str.replace(find_text, replace_text) on the texts of the model, none of
\* which contains another one or is empty: the text changes when it is find_text
StrReplace(text, find_text, new_text) == IF text = find_text THEN new_text ELSE text

\* the tables in the order FindReplaceDialog.replace collects the checked ones
TableOrder == <<"measurement", "observable", "parameter", "condition">>

\* FindReplaceDialog.replace: checked is the set of ticked boxes, tables in
\* the petab mode, panes in the SBML mode
FindReplaceDialog_replace(c, mode, find_text, new_text, checked) ==
    IF mode = "petab"
    THEN penGUI_replace_text(c, find_text, new_text,
                             SelectSeq(TableOrder, LAMBDA t : t \in checked))
    ELSE [c EXCEPT
            !.sbml.sbml_text_edit =
                IF "sbml" \in checked THEN StrReplace(@, find_text, new_text) ELSE @,
            !.sbml.antimony_text_edit =
                IF "antimony" \in checked THEN StrReplace(@, find_text, new_text)
                ELSE @]

\* the strings that reach a table cell, in Python's order of str
StringOrder ==
    <<"", "1", "1.0", "2", "a", "b", "c", "cond1", "f", "lin", "log10",
      "noiseParameter1_1", "noiseParameter1_None", "noiseParameter1_a",
      "noiseParameter1_b", "noiseParameter1_c", "normal", "p", "x">>
\* the numbers that reach a table cell, in increasing order
NumberOrder == <<"number:0", "float:1e-08", "number:1", "number:2", "float:1000.0">>
IsNumber(value) == \E i \in DOMAIN NumberOrder : NumberOrder[i] = PyNumber(value)
\* the place of a value among the values it can be compared with
PyRank(value) ==
    IF IsNumber(value)
    THEN CHOOSE i \in DOMAIN NumberOrder : NumberOrder[i] = PyNumber(value)
    ELSE CHOOSE i \in DOMAIN StringOrder : StringOrder[i] = value

\* "<" between a str and a number raises TypeError; NaN is set aside before
\* the values are compared
SortRaises(f, col) ==
    \E i \in DOMAIN f.data, j \in DOMAIN f.data :
        /\ f.data[i][col] # "nan" /\ f.data[j][col] # "nan"
        /\ IsNumber(f.data[i][col]) /\ ~IsNumber(f.data[j][col])

\* row i comes before row j in sort_values(by, ascending): NaN goes last,
\* and rows with equal keys keep their order in both directions
SortsBefore(f, col, ascending, i, j) ==
    LET a == f.data[i][col]
        b == f.data[j][col]
    IN IF a = "nan" THEN b = "nan" /\ i < j
       ELSE IF b = "nan" THEN TRUE
       ELSE IF PyRank(a) = PyRank(b) THEN i < j
       ELSE IF ascending THEN PyRank(a) < PyRank(b)
       ELSE PyRank(a) > PyRank(b)

\* df.sort_values(by=column, ascending=ascending): the rows with their labels
SortValues(f, col, ascending) ==
    LET place(i) == 1 + Cardinality({j \in DOMAIN f.data :
                                        j # i /\ SortsBefore(f, col, ascending, j, i)})
        from(k) == CHOOSE i \in DOMAIN f.data : place(i) = k
    IN [f EXCEPT !.index = [k \in DOMAIN f.index |-> f.index[from(k)]],
                 !.data = [k \in DOMAIN f.data |-> f.data[from(k)]]]

\* PandasTableModel.sort(column, order), the slot of a click on a header
penGUI_sort(c, t, column, ascending) ==
    IF SortRaises(c.df[t], column + 1) THEN Ret(c, "raise")
    ELSE [c EXCEPT !.df[t] = ResetIndex(SortValues(@, column + 1, ascending))]

\* Controller.reset_to_original_model
reset_to_original_model(c) ==
    IF sbmlToAntimony(c.sbml.original) = "raise"
    THEN Ret([Log(c, "reset_to_original", "orange") EXCEPT
                 !.sbml.sbml_text = c.sbml.original], "raise")
    ELSE [Log(c, "reset_to_original", "orange") EXCEPT
             !.sbml.sbml_text = c.sbml.original,
             !.sbml.antimony_text = sbmlToAntimony(c.sbml.original),
             !.sbml.sbml_text_edit = c.sbml.original,
             !.sbml.antimony_text_edit = sbmlToAntimony(c.sbml.original)]

\* self._data_frame[column_name] = default_value: pandas appends a column of
\* that name, or overwrites every cell of the column when the name exists
SetColumn(f, column_name, default_value) ==
    IF HasColumn(f, column_name)
    THEN [f EXCEPT !.data = [i \in DOMAIN f.data |->
                                [f.data[i] EXCEPT ![ColPos(f, column_name)] = default_value]]]
    ELSE [f EXCEPT !.columns = Append(@, column_name),
                   !.data = [i \in DOMAIN f.data |-> Append(f.data[i], default_value)]]

\* default_value = "" if column_type == "STRING" else 0
column_default(column_type) == IF column_type = "STRING" THEN "" ELSE "int:0"

\* PandasTableModel.insertColumn of petab_gui; the branch of a name that is
\* not allowed calls new_log_message.emit with the keyword color, which
\* raises TypeError before the return False
insertColumn(c, t, column_name) ==
    IF ~(column_name \in DOMAIN allowed_columns(t) \/ DOMAIN allowed_columns(t) = {})
    THEN Ret(c, "raise")
    ELSE Ret([c EXCEPT !.df[t] =
                 SetColumn(@, column_name,
                           column_default(IF column_name \in DOMAIN allowed_columns(t)
                                          THEN allowed_columns(t)[column_name]
                                          ELSE "STRING"))],
             "True")

\* TableController.add_column; the outcome of insertColumn is kept in ret
add_column(c, t, column_name) ==
    IF column_name = "" THEN c ELSE insertColumn(c, t, column_name)

\* PandasTableModel.add_column of penGUI
penGUI_add_column(c, t, column_name, default_value) ==
    [c EXCEPT !.df[t] = SetColumn(@, column_name, default_value)]

\* Controller.add_column_to_model; the QMessageBox.warning of a name that is
\* not allowed is recorded as the log entry invalid_column
add_column_to_model(c, t, column_name) ==
    IF column_name \in DOMAIN penGUI_allowed_columns(t)
    THEN penGUI_add_column(c, t, column_name,
                           column_default(penGUI_allowed_columns(t)[column_name]))
    ELSE Log(c, "invalid_column", "warning")

\* Controller.add_column of penGUI
penGUI_controller_add_column(c, t, column_name) ==
    IF column_name = "" THEN c ELSE add_column_to_model(c, t, column_name)

\* the end of process_data_matrix_file, c being what
\* populate_tables_from_data_matrix left
data_matrix_processed(c) ==
    IF c.ret = "raise" THEN Ret(Log(c, "data_matrix_failed", "red"), "None")
    ELSE [c EXCEPT !.unsaved_changes = TRUE]

\* Controller.process_data_matrix_file with load_data_matrix
penGUI_process_data_matrix_file(c, file, o) ==
    IF ~file.readable THEN Log(c, "data_matrix_failed", "red")
    ELSE IF ~has_time_column(file.columns) THEN Log(c, "invalid_file", "red")
    ELSE IF file.rows = <<>> THEN c
    ELSE data_matrix_processed(penGUI_populate_tables_from_data_matrix(
                                   c, rename_time_column(file), 1, "cond1", o))

-----------------------------------------------------------------------------
(* Initial state and the inputs of the environment *)

\* what a user types into a cell or a dialog
Inputs == {"b", "1"}

Frame(index, columns, data) == [index |-> index, columns |-> columns, data |-> data]

\* petab.Problem.from_yaml: the id tables are indexed by their id
InitialFrames ==
    [measurement |-> Frame(RangeIndex(2), <<"observableId", "measurement">>,
                           << <<"a", "float:1.0">>, <<"b", "float:2.0">> >>),
     observable |-> Frame(<<"a", "b">>, <<"observableFormula">>,
                          << <<"a">>, <<"b">> >>),
     parameter |-> Frame(<<"a">>, <<"nominalValue", "estimate">>,
                         << <<"float:1.0", "int:1">> >>),
     condition |-> Frame(<<"a">>, <<"conditionName">>, << <<"a">> >>)]

\* penGUI: the frames handed to Controller.__init__ are read with read_csv
\* and typed by set_dtypes
penGUI_InitialFrames ==
    [measurement |-> Frame(RangeIndex(2), <<"observableId", "measurement">>,
                           << <<"a", "float:1.0">>, <<"b", "float:2.0">> >>),
     observable |-> Frame(RangeIndex(2), <<"observableId", "observableFormula">>,
                          << <<"a", "a">>, <<"b", "b">> >>),
     parameter |-> Frame(RangeIndex(1), <<"parameterId", "nominalValue", "estimate">>,
                         << <<"a", "float:1.0", "bool:True">> >>),
     condition |-> Frame(RangeIndex(1), <<"conditionId", "conditionName">>,
                         << <<"a", "a">> >>)]

\* pd.read_csv(path, sep=...) of a table file: every column of the file is a
\* data column and the index is a RangeIndex
ReadCsv(t, ids) ==
    CASE t = "measurement" ->
            Frame(RangeIndex(Len(ids)), <<"observableId", "measurement">>,
                  [i \in DOMAIN ids |-> <<ids[i], "float:1.0">>])
      [] t = "observable" ->
            Frame(RangeIndex(Len(ids)), <<"observableId", "observableFormula">>,
                  [i \in DOMAIN ids |-> <<ids[i], "a">>])
      [] t = "parameter" ->
            Frame(RangeIndex(Len(ids)), <<"parameterId", "nominalValue", "estimate">>,
                  [i \in DOMAIN ids |-> <<ids[i], "float:1.0", "int:1">>])
      [] t = "condition" ->
            Frame(RangeIndex(Len(ids)), <<"conditionId", "conditionName">>,
                  [i \in DOMAIN ids |-> <<ids[i], "a">>])

\* the files a user picks for table t: two table files (one repeats an id),
\* a file of another format and a file pandas cannot read
GoodFile(t) == [suffix |-> ".tsv", readable |-> TRUE, frame |-> ReadCsv(t, <<"a", "b">>)]
DuplicateFile(t) == [suffix |-> ".csv", readable |-> TRUE, frame |-> ReadCsv(t, <<"a", "a">>)]
TextFile(t) == [suffix |-> ".txt", readable |-> TRUE, frame |-> ReadCsv(t, <<>>)]
UnreadableFile(t) == [suffix |-> ".csv", readable |-> FALSE, frame |-> ReadCsv(t, <<>>)]
Files(t) == {GoodFile(t), DuplicateFile(t), TextFile(t), UnreadableFile(t)}
\* a table file loads when its format is supported and pandas reads it
Loads(file) == file.suffix \in {".csv", ".tsv"} /\ file.readable

\* the SBML files a user picks: one that loads and one that does not
GoodSbml == [ok |-> TRUE, text |-> "sbml1"]
BadSbml == [ok |-> FALSE, text |-> ""]
SbmlFiles == {GoodSbml, BadSbml}

\* the YAML files a user picks: the dialog cancelled, a file that is no PEtab
\* YAML, a problem whose five files load, and problems one file of which
\* does not load
Yaml(path, readable, sbml_file, table_files) ==
    [path |-> path, readable |-> readable, sbml_file |-> sbml_file,
     table_files |-> table_files]
GoodFiles == [t \in Tables |-> GoodFile(t)]
Yamls ==
    {Yaml("", FALSE, BadSbml, GoodFiles),
     Yaml("broken.yaml", FALSE, BadSbml, GoodFiles),
     Yaml("problem.yaml", TRUE, GoodSbml, GoodFiles),
     Yaml("problem.yaml", TRUE, BadSbml, GoodFiles),
     Yaml("problem.yaml", TRUE, GoodSbml,
          [GoodFiles EXCEPT !["observable"] = UnreadableFile("observable")]),
     Yaml("problem.yaml", TRUE, GoodSbml,
          [GoodFiles EXCEPT !["condition"] = TextFile("condition")])}
\* the files a YAML names that cannot be loaded
NotLoading(yaml) ==
    (IF yaml.readable THEN {} ELSE {"yaml"})
    \cup (IF yaml.sbml_file.ok THEN {} ELSE {"sbml"})
    \cup {t \in Tables : ~Loads(yaml.table_files[t])}

\* the data matrices a user picks: a file pandas cannot read, a matrix with no
\* time column, a matrix with no row, and a matrix of one time point of the
\* observables b and c
DataMatrix(readable, columns, rows) ==
    [readable |-> readable, columns |-> columns, rows |-> rows]
DataMatrices ==
    {DataMatrix(FALSE, <<>>, <<>>),
     DataMatrix(TRUE, <<"x", "b">>, << <<"float:1.0", "float:2.0">> >>),
     DataMatrix(TRUE, <<"time", "b">>, <<>>),
     DataMatrix(TRUE, <<"t", "b", "c">>, << <<"float:1.0", "float:2.0", "float:1.0">> >>)}

\* the names typed into the Add Column dialog; "" stands for an empty or
\* cancelled dialog
ColumnNames == {"", "observableId", "time", "bogus"}

\* what the measurement dialog returns: observable id, measurement, time
\* point and condition id as typed, or <<>> for a cancelled dialog
MeasurementInputs ==
    {<<>>, <<"", "1", "1", "">>, <<"b", "1", "1", "">>, <<"c", "x", "1", "">>,
     <<"c", "1", "1", "">>, <<"c", "1", "1", "cond1">>}

\* what the user has typed into the SBML pane and the Antimony pane
SbmlPaneTexts == {"sbml1", "bad"}
AntimonyPaneTexts == {"ant1", "bad"}

NoCall ==
    [op |-> "init", table |-> "none", row |-> -1, column |-> -1, value |-> "",
     rows |-> <<>>, ret |-> "None", lints |-> <<>>, emitted |-> <<>>,
     log |-> <<>>, used |-> {}, answers |-> DefaultAnswers,
     saved |-> FALSE, written |-> <<>>, failed |-> {}, matrix |-> <<>>,
     args |-> <<>>]

\* the title the main window is created with: petab_gui's MainWindow sets
\* "PEtab Editor", penGUI's sets CONFIG['window_title']
window_title(i) == IF i = "petab_gui" THEN "PEtab Editor" ELSE "My Application"

\* SbmlViewerModel.__init__: the texts of the model the program starts with,
\* shown in the two panes; original is the text of _sbml_model_original
InitialSbml ==
    [sbml_text |-> "sbml0", antimony_text |-> "ant0",
     sbml_text_edit |-> "sbml0", antimony_text_edit |-> "ant0",
     original |-> "sbml0"]

Init ==
    /\ impl \in {"petab_gui", "penGUI"}
    /\ df = IF impl = "petab_gui" THEN InitialFrames ELSE penGUI_InitialFrames
    /\ invalid = [t \in Tables |-> {}]
    /\ unsaved_changes = FALSE
    /\ title = window_title(impl)
    /\ sbml = InitialSbml
    /\ window = "open"
    /\ steps = 0
    /\ last = NoCall

WithinBounds(c) == \A t \in Tables : NRows(c.df[t]) <= MaxRows

\* the handler ran to its end: its effects become the state
Commit(c, call, o) ==
    /\ Canonical(o, c.used)
    /\ WithinBounds(c)
    /\ steps' = steps + 1
    /\ df' = c.df
    /\ invalid' = c.invalid
    /\ unsaved_changes' = c.unsaved_changes
    /\ title' = c.title
    /\ sbml' = c.sbml
    /\ window' = c.window
    /\ last' = [call EXCEPT !.ret = c.ret, !.lints = c.lints, !.emitted = c.emitted,
                            !.log = c.log, !.used = c.used, !.answers = o,
                            !.saved = c.saved, !.written = c.written]
    /\ impl' = impl

Call(op, t) == [NoCall EXCEPT !.op = op, !.table = t]
CellCall(op, t, row, column, value) ==
    [NoCall EXCEPT !.op = op, !.table = t, !.row = row, !.column = column,
                   !.value = value]

-----------------------------------------------------------------------------
(* Actions of petab_gui: one per handler the user can trigger *)

GuiSetData ==
    /\ impl = "petab_gui"
    /\ steps < MaxSteps
    /\ window = "open"
    /\ \E t \in Tables, value \in Inputs :
       \E row \in 0..(rowCount(df[t]) - 1), column \in 0..(columnCount(t, df[t]) - 1) :
       \E o \in AnswersTo(setData(Ctx, t, row, column, value, DefaultAnswers).used) :
          Commit(setData(Ctx, t, row, column, value, o),
                 CellCall("setData", t, row, column, value), o)

GuiUpload ==
    /\ impl = "petab_gui"
    /\ steps < MaxSteps
    /\ window = "open"
    /\ \E t \in Tables : \E file \in Files(t) :
          Commit(upload_and_overwrite_table(Ctx, t, file),
                 [Call("upload_and_overwrite_table", t) EXCEPT
                     !.value = file.suffix,
                     !.failed = IF Loads(file) THEN {} ELSE {t}],
                 DefaultAnswers)

GuiUploadYaml ==
    /\ impl = "petab_gui"
    /\ steps < MaxSteps
    /\ window = "open"
    /\ \E yaml \in Yamls :
          Commit(upload_yaml_and_load_files(Ctx, yaml),
                 [Call("upload_yaml_and_load_files", "none") EXCEPT
                     !.value = yaml.path, !.failed = NotLoading(yaml)],
                 DefaultAnswers)

GuiDataMatrix ==
    /\ impl = "petab_gui"
    /\ steps < MaxSteps
    /\ window = "open"
    /\ \E file \in DataMatrices :
       \E o \in AnswersTo(process_data_matrix_file(Ctx, file, DefaultAnswers).used) :
          Commit(process_data_matrix_file(Ctx, file, o),
                 [Call("process_data_matrix_file", "measurement") EXCEPT
                     !.matrix = file], o)

GuiClose ==
    /\ impl = "petab_gui"
    /\ steps < MaxSteps
    /\ window = "open"
    /\ \E file_name \in {"", "project.zip"} :
       \E o \in AnswersTo(closeEvent(Ctx, file_name, DefaultAnswers).used) :
          /\ o.close_reply # "Save" => file_name = ""
          /\ Commit(closeEvent(Ctx, file_name, o),
                    [Call("closeEvent", "none") EXCEPT !.value = file_name], o)

GuiReplaceText ==
    /\ impl = "petab_gui"
    /\ steps < MaxSteps
    /\ window = "open"
    /\ \E t \in Tables, find_text \in Inputs :
       \E new_text \in Inputs \ {find_text} :
          Commit(replace_text(Ctx, t, find_text, new_text),
                 [Call("replace_text", t) EXCEPT !.value = new_text], DefaultAnswers)

GuiDeleteRow ==
    /\ impl = "petab_gui"
    /\ steps < MaxSteps
    /\ window = "open"
    /\ \E t \in Tables :
          Commit(delete_row(Ctx, t, <<0>>),
                 [Call("delete_row", t) EXCEPT !.rows = <<0>>], DefaultAnswers)

GuiSaveModel ==
    /\ impl = "petab_gui"
    /\ steps < MaxSteps
    /\ window = "open"
    /\ \E file_name \in {"", "project.zip"} :
          Commit(save_model(Ctx, file_name),
                 [Call("save_model", "none") EXCEPT !.value = file_name],
                 DefaultAnswers)

-----------------------------------------------------------------------------
(* Actions of penGUI *)

\* the rows of the selected cells, as selectionModel().selectedIndexes()
\* reports them: one entry per selected cell, so a row can come twice; the
\* handler sorts them, so each selection is listed in one order only
Selections(f) ==
    {<<>>} \cup {<<r>> : r \in 0..(NRows(f) - 1)}
           \cup {p \in (0..(NRows(f) - 1)) \X (0..(NRows(f) - 1)) : p[1] <= p[2]}

PenSetData ==
    /\ impl = "penGUI"
    /\ steps < MaxSteps
    /\ window = "open"
    /\ \E t \in Tables, value \in Inputs :
       \E row \in 0..(NRows(df[t]) - 1), column \in 0..(NCols(df[t]) - 1) :
       \E o \in AnswersTo(penGUI_setData(Ctx, t, row, column, value, DefaultAnswers).used) :
          Commit(penGUI_setData(Ctx, t, row, column, value, o),
                 CellCall("setData", t, row, column, value), o)

PenDeleteRow ==
    /\ impl = "penGUI"
    /\ steps < MaxSteps
    /\ window = "open"
    /\ \E t \in Tables \cup {"none"} :
       \E selected_rows \in (IF t = "none" THEN {<<>>} ELSE Selections(df[t])) :
          Commit(penGUI_delete_row(Ctx, t, selected_rows),
                 [Call("delete_row", t) EXCEPT !.rows = selected_rows], DefaultAnswers)

PenUpload ==
    /\ impl = "penGUI"
    /\ steps < MaxSteps
    /\ window = "open"
    /\ \E t \in Tables : \E file \in Files(t) :
          Commit(penGUI_upload_and_overwrite_table(Ctx, t, file),
                 [Call("upload_and_overwrite_table", t) EXCEPT
                     !.value = file.suffix,
                     !.failed = IF Loads(file) THEN {} ELSE {t}],
                 DefaultAnswers)

PenUploadSbml ==
    /\ impl = "penGUI"
    /\ steps < MaxSteps
    /\ window = "open"
    /\ \E file \in SbmlFiles :
          Commit(penGUI_upload_and_overwrite_sbml(Ctx, file),
                 [Call("upload_and_overwrite_sbml", "none") EXCEPT
                     !.value = file.text,
                     !.failed = IF file.ok THEN {} ELSE {"sbml"}],
                 DefaultAnswers)

PenUploadYaml ==
    /\ impl = "penGUI"
    /\ steps < MaxSteps
    /\ window = "open"
    /\ \E yaml \in Yamls :
          Commit(penGUI_upload_yaml_and_load_files(Ctx, yaml),
                 [Call("upload_yaml_and_load_files", "none") EXCEPT
                     !.value = yaml.path, !.failed = NotLoading(yaml)],
                 DefaultAnswers)

PenUpdateAntimony ==
    /\ impl = "penGUI"
    /\ steps < MaxSteps
    /\ window = "open"
    /\ \E text \in SbmlPaneTexts :
          Commit(update_antimony_from_sbml([Ctx EXCEPT !.sbml.sbml_text_edit = text]),
                 [Call("update_antimony_from_sbml", "none") EXCEPT !.value = text],
                 DefaultAnswers)

PenUpdateSbml ==
    /\ impl = "penGUI"
    /\ steps < MaxSteps
    /\ window = "open"
    /\ \E text \in AntimonyPaneTexts :
          Commit(update_sbml_from_antimony([Ctx EXCEPT !.sbml.antimony_text_edit = text]),
                 [Call("update_sbml_from_antimony", "none") EXCEPT !.value = text],
                 DefaultAnswers)

PenDataMatrix ==
    /\ impl = "penGUI"
    /\ steps < MaxSteps
    /\ window = "open"
    /\ \E file \in DataMatrices :
       \E o \in AnswersTo(penGUI_process_data_matrix_file(Ctx, file, DefaultAnswers).used) :
          Commit(penGUI_process_data_matrix_file(Ctx, file, o),
                 [Call("process_data_matrix_file", "measurement") EXCEPT
                     !.matrix = file], o)

PenClose ==
    /\ impl = "penGUI"
    /\ steps < MaxSteps
    /\ window = "open"
    /\ \E file_name \in {"", "project.zip"} :
       \E o \in AnswersTo(penGUI_closeEvent(Ctx, file_name, DefaultAnswers).used) :
          /\ o.close_reply # "Save" => file_name = ""
          /\ Commit(penGUI_closeEvent(Ctx, file_name, o),
                    [Call("closeEvent", "none") EXCEPT !.value = file_name], o)

PenAddMeasurementRow ==
    /\ impl = "penGUI"
    /\ steps < MaxSteps
    /\ window = "open"
    /\ \E inputs \in MeasurementInputs :
       \E o \in AnswersTo(add_measurement_row(Ctx, inputs, DefaultAnswers).used) :
          Commit(add_measurement_row(Ctx, inputs, o),
                 [Call("add_measurement_row", "measurement") EXCEPT !.args = inputs], o)

PenSaveModel ==
    /\ impl = "penGUI"
    /\ steps < MaxSteps
    /\ window = "open"
    /\ \E file_name \in {"", "project.zip"} :
          Commit(penGUI_save_model(Ctx, file_name),
                 [Call("save_model", "none") EXCEPT !.value = file_name],
                 DefaultAnswers)

\* what the Add Row dialogs of the observable, parameter and condition table
\* return: <<>> when cancelled, otherwise the texts of their fields
ObservableInputs == {<<>>, <<"c", "">>, <<"c", "x">>}
ParameterInputs == {<<>>, <<"p", "1">>, <<"p", "x">>}
ConditionInputs == {<<>>, <<"">>, <<"c">>}
RowInputs(t) ==
    CASE t = "observable" -> ObservableInputs
      [] t = "parameter" -> ParameterInputs
      [] t = "condition" -> ConditionInputs
\* the boxes ticked in the find/replace dialog and the texts typed into it
CheckedTables == {{}, {"measurement"}, {"observable", "parameter"}, Tables}
CheckedPanes == SUBSET {"sbml", "antimony"}
PaneReplacements == {<<"sbml0", "bad">>, <<"ant0", "ant1">>}

GuiUploadSbml ==
    /\ impl = "petab_gui"
    /\ steps < MaxSteps
    /\ window = "open"
    /\ \E file \in SbmlFiles :
          Commit(SbmlController_upload_and_overwrite_sbml(Ctx, file),
                 [Call("upload_and_overwrite_sbml", "none") EXCEPT
                     !.value = file.text,
                     !.failed = IF file.ok THEN {} ELSE {"sbml"}],
                 DefaultAnswers)

GuiUpdateAntimony ==
    /\ impl = "petab_gui"
    /\ steps < MaxSteps
    /\ window = "open"
    /\ \E text \in SbmlPaneTexts :
          Commit(SbmlController_update_antimony_from_sbml(Ctx, text),
                 [Call("update_antimony_from_sbml", "none") EXCEPT !.value = text],
                 DefaultAnswers)

GuiUpdateSbml ==
    /\ impl = "petab_gui"
    /\ steps < MaxSteps
    /\ window = "open"
    /\ \E text \in AntimonyPaneTexts :
          Commit(SbmlController_update_sbml_from_antimony(Ctx, text),
                 [Call("update_sbml_from_antimony", "none") EXCEPT !.value = text],
                 DefaultAnswers)

PenAddRow ==
    /\ impl = "penGUI"
    /\ steps < MaxSteps
    /\ window = "open"
    /\ \E t \in Tables \ {"measurement"} : \E inputs \in RowInputs(t) :
       \E o \in AnswersTo(penGUI_add_row(Ctx, t, inputs, DefaultAnswers).used) :
          Commit(penGUI_add_row(Ctx, t, inputs, o),
                 [Call("add_row", t) EXCEPT !.args = inputs], o)

PenReplaceText ==
    /\ impl = "penGUI"
    /\ steps < MaxSteps
    /\ window = "open"
    /\ \E checked \in CheckedTables :
          Commit(FindReplaceDialog_replace(Ctx, "petab", "b", "1", checked),
                 [Call("replace_text", "none") EXCEPT
                     !.value = "1", !.args = <<"petab", "b", checked>>],
                 DefaultAnswers)

PenReplaceInPanes ==
    /\ impl = "penGUI"
    /\ steps < MaxSteps
    /\ window = "open"
    /\ \E checked \in CheckedPanes, texts \in PaneReplacements :
          Commit(FindReplaceDialog_replace(Ctx, "sbml", texts[1], texts[2], checked),
                 [Call("replace", "none") EXCEPT
                     !.value = texts[2], !.args = <<"sbml", texts[1], checked>>],
                 DefaultAnswers)

PenSort ==
    /\ impl = "penGUI"
    /\ steps < MaxSteps
    /\ window = "open"
    /\ \E t \in Tables, ascending \in BOOLEAN :
       \E column \in 0..(NCols(df[t]) - 1) :
          Commit(penGUI_sort(Ctx, t, column, ascending),
                 [Call("sort", t) EXCEPT !.column = column,
                                         !.args = <<ascending>>],
                 DefaultAnswers)

PenReset ==
    /\ impl = "penGUI"
    /\ steps < MaxSteps
    /\ window = "open"
    /\ Commit(reset_to_original_model(Ctx),
              Call("reset_to_original_model", "none"), DefaultAnswers)

GuiAddColumn ==
    /\ impl = "petab_gui"
    /\ steps < MaxSteps
    /\ window = "open"
    /\ \E t \in Tables, column_name \in ColumnNames :
          Commit(add_column(Ctx, t, column_name),
                 [Call("add_column", t) EXCEPT !.value = column_name],
                 DefaultAnswers)

PenAddColumn ==
    /\ impl = "penGUI"
    /\ steps < MaxSteps
    /\ window = "open"
    /\ \E t \in Tables, column_name \in ColumnNames :
          Commit(penGUI_controller_add_column(Ctx, t, column_name),
                 [Call("add_column", t) EXCEPT !.value = column_name],
                 DefaultAnswers)

\* the handlers wired in petab_gui
NextGui ==
    \/ GuiSetData
    \/ GuiUpload
    \/ GuiUploadSbml
    \/ GuiUploadYaml
    \/ GuiUpdateAntimony
    \/ GuiUpdateSbml
    \/ GuiDataMatrix
    \/ GuiClose
    \/ GuiReplaceText
    \/ GuiDeleteRow
    \/ GuiAddColumn
    \/ GuiSaveModel

\* the handlers wired in penGUI
NextPen ==
    \/ PenSetData
    \/ PenSort
    \/ PenAddMeasurementRow
    \/ PenAddRow
    \/ PenAddColumn
    \/ PenDeleteRow
    \/ PenReplaceText
    \/ PenReplaceInPanes
    \/ PenUpload
    \/ PenUploadSbml
    \/ PenUploadYaml
    \/ PenUpdateAntimony
    \/ PenUpdateSbml
    \/ PenReset
    \/ PenDataMatrix
    \/ PenClose
    \/ PenSaveModel

Next == NextGui \/ NextPen

Spec == Init /\ [][Next]_vars

\* petab_gui alone
InitGui == Init /\ impl = "petab_gui"
SpecGui == InitGui /\ [][NextGui]_vars

\* penGUI alone
InitPen == Init /\ impl = "penGUI"
SpecPen == InitPen /\ [][NextPen]_vars

-----------------------------------------------------------------------------
(* copy_noise_parameters applied to measurement tables that carry the columns
   it reads *)

NoiseRows ==
    {<<o, sc, n>> : o \in {"a", "b"}, sc \in {"c1", "c2"}, n \in {"n1", "n2"}}
NoiseFrames ==
    {Frame(RangeIndex(Len(rows)),
           <<"observableId", "simulationConditionId", "noiseParameters">>, rows) :
       rows \in UNION {[1..n -> NoiseRows] : n \in 0..MaxNoiseRows}}

InitNoise ==
    /\ impl \in {"petab_gui", "penGUI"}
    /\ \E f \in NoiseFrames :
          df = [(IF impl = "petab_gui" THEN InitialFrames ELSE penGUI_InitialFrames)
                   EXCEPT !["measurement"] = f]
    /\ invalid = [t \in Tables |-> {}]
    /\ unsaved_changes = FALSE
    /\ title = window_title(impl)
    /\ sbml = InitialSbml
    /\ window = "open"
    /\ steps = 0
    /\ last = NoCall

\* the ids asked for: of rows of the table, of no row ("z"), and no condition
GuiCopyNoise ==
    /\ impl = "petab_gui"
    /\ steps < MaxSteps
    /\ \E observable_id \in {"a", "b", "z"}, condition_id \in {"", "c1", "c2", "z"} :
          Commit(copy_noise_parameters(Ctx, observable_id, condition_id),
                 [Call("copy_noise_parameters", "measurement") EXCEPT
                     !.args = <<observable_id, condition_id>>], DefaultAnswers)

PenCopyNoise ==
    /\ impl = "penGUI"
    /\ steps < MaxSteps
    /\ \E observable_id \in {"a", "b", "z"}, condition_id \in {"", "c1", "c2", "z"} :
          Commit(penGUI_copy_noise_parameters(Ctx, observable_id, condition_id),
                 [Call("copy_noise_parameters", "measurement") EXCEPT
                     !.args = <<observable_id, condition_id>>], DefaultAnswers)

NextNoise ==
    \/ GuiCopyNoise
    \/ PenCopyNoise

SpecNoise == InitNoise /\ [][NextNoise]_vars

-----------------------------------------------------------------------------
(* Rows and columns added through the dialogs, and the row deletion of penGUI
   that precedes them, from the tables of start-up *)

NextTables ==
    \/ GuiAddColumn
    \/ PenAddColumn
    \/ PenDeleteRow
    \/ PenAddMeasurementRow
    \/ PenAddRow

SpecTables == Init /\ [][NextTables]_vars

-----------------------------------------------------------------------------
(* Public methods that no wired handler reaches: nothing under the sources   *)
(* calls them, so they are no step of Next; SpecCalls runs them directly.    *)

\* PandasTableModel.replace_text(old_text, new_text) of petab_gui: no log
\* entry, no something_changed
PandasTableModel_replace_text(c, t, old_text, new_text) ==
    [c EXCEPT !.df[t] = Replace(@, old_text, new_text)]

\* ConditionModel.fill_row: self._data_frame.index[row_position] = ... raises
\* TypeError, a pandas Index being immutable, before any cell is written
ConditionModel_fill_row(c, row_position, data) == Ret(c, "raise")

\* ConditionController.maybe_add_condition; get_df()["conditionId"] raises
\* KeyError while conditionId is the index of the frame
maybe_add_condition(c, condition_id) ==
    IF ~HasColumn(get_df(c.df["condition"]), "conditionId") THEN Ret(c, "raise")
    ELSE IF condition_id \in ColumnValues(get_df(c.df["condition"]), "conditionId")
    THEN c
    ELSE LET c1 == ConditionModel_fill_row(
                      [c EXCEPT !.df["condition"] = insertRows(@, 1)],
                      NRows(c.df["condition"]), [conditionId |-> condition_id])
         IN IF c1.ret = "raise" THEN c1 ELSE Log(c1, "added_condition", "green")

\* PandasTableModel.add_row of penGUI: loc[len(df)] = a row of empty strings;
\* neither the unsaved flag nor a lint
PandasTableModel_add_row(c, t) ==
    [c EXCEPT !.df[t] = LocSetRow(@, IntLabel(NRows(@)), EmptyRow(@))]

GuiModelReplaceText ==
    /\ impl = "petab_gui"
    /\ steps < MaxSteps
    /\ window = "open"
    /\ \E t \in Tables, old_text \in Inputs :
       \E new_text \in Inputs \ {old_text} :
          Commit(PandasTableModel_replace_text(Ctx, t, old_text, new_text),
                 [Call("PandasTableModel.replace_text", t) EXCEPT
                     !.value = new_text, !.args = <<old_text>>],
                 DefaultAnswers)

GuiMaybeAddCondition ==
    /\ impl = "petab_gui"
    /\ steps < MaxSteps
    /\ window = "open"
    /\ \E condition_id \in {"a", "c"} :
          Commit(maybe_add_condition(Ctx, condition_id),
                 [Call("maybe_add_condition", "condition") EXCEPT
                     !.value = condition_id],
                 DefaultAnswers)

PenModelAddRow ==
    /\ impl = "penGUI"
    /\ steps < MaxSteps
    /\ window = "open"
    /\ \E t \in Tables :
          Commit(PandasTableModel_add_row(Ctx, t),
                 Call("PandasTableModel.add_row", t), DefaultAnswers)

NextCalls ==
    \/ GuiModelReplaceText
    \/ GuiMaybeAddCondition
    \/ GuiUpload
    \/ PenModelAddRow
    \/ PenDeleteRow

SpecCalls == Init /\ [][NextCalls]_vars

-----------------------------------------------------------------------------
(* Properties *)

\* The key of data row i (counted from 1) of table t: its id, which is the
\* index label of a frame indexed by id and the cell of the id column of a
\* frame that carries the id as a column.
Key(f, t, i) ==
    IF HasColumn(f, IdColumn(t)) THEN f.data[i][ColPos(f, IdColumn(t))]
    ELSE f.index[i]
\* the view column that shows the key
KeyColumn(f, t) == IF HasColumn(f, IdColumn(t)) THEN ColPos(f, IdColumn(t)) ELSE 0

\* the cell a setData call addresses, before the call
EditedCell(t, row, column) ==
    IF impl = "petab_gui" /\ has_named_index(t)
    THEN IF column = 0 THEN df[t].index[row + 1] ELSE Iloc(df[t], row, column - 1)
    ELSE Iloc(df[t], row, column)
\* the declared type of the column a setData call addresses ("None": none)
DeclaredType(t, column) ==
    IF impl = "petab_gui"
    THEN IF has_named_index(t)
         THEN IF column = 0 THEN "None"
              ELSE DictGet(allowed_columns(t), df[t].columns[column])
         ELSE DictGet(allowed_columns(t), df[t].columns[column + 1])
    ELSE DictGet(penGUI_allowed_columns(t), df[t].columns[column + 1])

IsSetData(call) == call.op = "setData"
OnDataRow(call) == call.row < NRows(df[call.table])
Emitted(call, signal) ==
    \E i \in DOMAIN call.emitted : call.emitted[i][1] = signal
\* the lints of the edited row among the lints of a call
RowLints(call) ==
    {i \in DOMAIN call.lints :
        call.lints[i].table = call.table /\ call.lints[i].row = call.row}
\* the selection of a delete_row call names existing rows only
DeletesRows(call) ==
    /\ call.op = "delete_row"
    /\ call.rows # <<>>
    /\ \A i \in DOMAIN call.rows : call.rows[i] < NRows(df[call.table])

\* C1 (key uniqueness): in petab_gui, no two data rows of an indexed table
\* (observable, parameter, condition) have the same key.
C1_KeyUniqueness ==
    impl = "petab_gui" =>
        \A t \in IndexedTables : \A i, j \in DOMAIN df[t].index :
            i # j => Key(df[t], t, i) # Key(df[t], t, j)

\* C2 (duplicate rename is rejected): in petab_gui, setData on the key cell of
\* a data row of an indexed table with a value that is the key of another row
\* returns False, changes no frame, emits no observable_id_changed, runs no
\* lint and leaves the unsaved flag as it was.
C2_DuplicateRenameRejected ==
    [][ (/\ impl = "petab_gui"
         /\ IsSetData(last')
         /\ last'.table \in IndexedTables
         /\ OnDataRow(last')
         /\ last'.column = KeyColumn(df[last'.table], last'.table)
         /\ \E i \in DOMAIN df[last'.table].index :
               /\ i # last'.row + 1
               /\ Key(df[last'.table], last'.table, i) = last'.value)
        => (/\ last'.ret = "False"
            /\ df' = df
            /\ ~Emitted(last', "observable_id_changed")
            /\ last'.lints = <<>>
            /\ unsaved_changes' = unsaved_changes) ]_vars

\* C3 (type-incompatible edit is rejected): setData on a cell of a data row
\* whose column declares a type, with a value that does not convert to that
\* type, returns False, runs no lint, and leaves every frame, every invalid
\* mark and the unsaved flag as they were.
C3_TypeErrorRejected ==
    [][ (/\ IsSetData(last')
         /\ OnDataRow(last')
         /\ DeclaredType(last'.table, last'.column) = "NUMERIC"
         /\ PyFloat(last'.value) = "ValueError")
        => (/\ last'.ret = "False"
            /\ last'.lints = <<>>
            /\ df' = df
            /\ invalid' = invalid
            /\ unsaved_changes' = unsaved_changes) ]_vars
\* C4 (confirmed cascade): when a cell of a data row of the observable table
\* is edited from old to new and the user answers Yes to the rename prompt,
\* the measurement table afterwards is the one before with observableId new
\* wherever it was old, and is otherwise unchanged.
C4_ConfirmedCascade ==
    [][ (/\ IsSetData(last')
         /\ last'.table = "observable"
         /\ OnDataRow(last')
         /\ "reply" \in last'.used
         /\ last'.answers.reply = "Yes")
        => LET m == df["measurement"]
               old == EditedCell("observable", last'.row, last'.column)
           IN df'["measurement"] =
                [m EXCEPT !.data = [i \in DOMAIN m.data |-> [j \in DOMAIN m.columns |->
                    IF m.columns[j] = "observableId" /\ m.data[i][j] = old
                    THEN last'.value ELSE m.data[i][j]]]] ]_vars

\* C5 (declined cascade): an edit of the observable table changes the
\* measurement table only if the rename prompt was answered Yes.
C5_DeclinedCascade ==
    [][ (/\ IsSetData(last')
         /\ last'.table = "observable"
         /\ ~("reply" \in last'.used /\ last'.answers.reply = "Yes"))
        => df'["measurement"] = df["measurement"] ]_vars
\* the prompt was answered No while a measurement row carries the old id
C5_Witness ==
    /\ IsSetData(last)
    /\ last.table = "observable"
    /\ "reply" \in last.used
    /\ last.answers.reply = "No"
    /\ last.ret = "True"
    /\ \E e \in DOMAIN last.emitted :
          /\ last.emitted[e][1] = "observable_id_changed"
          /\ \E i \in DOMAIN df["measurement"].data :
                /\ Iloc(df["measurement"], i - 1, 0) \in
                        {last.emitted[e][2], last.emitted[e][3]}
                /\ Iloc(df["measurement"], i - 1, 0) # last.value

\* C6 (row deletion): delete_row with a selection of existing rows, a row
\* possibly named more than once, leaves exactly the unselected rows, in
\* their order, labelled 0..n-1.
C6_RowDeletion ==
    [][ DeletesRows(last')
        => LET f == df[last'.table]
               keep == {i \in DOMAIN f.index :
                           \A k \in DOMAIN last'.rows : last'.rows[k] # i - 1}
           IN df'[last'.table] =
                [index |-> RangeIndex(Cardinality(keep)), columns |-> f.columns,
                 data |-> SelectIdx(f.data, keep, 1)] ]_vars

\* C7 (save is independent of validity): save_model with a chosen file name
\* writes an archive with one entry per table, holding the table's contents,
\* and one entry with the SBML text, whatever the invalid marks are.
C7_SaveWritesAll ==
    (last.op = "save_model" /\ last.value # "")
    => /\ last.saved
       /\ \A t \in Tables :
             /\ ArchiveName(t) \in DOMAIN last.written
             /\ last.written[ArchiveName(t)] = to_csv(df[t])
       /\ "model.xml" \in DOMAIN last.written
       /\ last.written["model.xml"] = [text |-> sbml.sbml_text]

\* C8 (committed edit marks unsaved and revalidates): in petab_gui, when
\* setData has returned True, it has run exactly one lint of the edited row
\* and MainController.unsaved_changes is True.
C8_CommittedEdit ==
    (impl = "petab_gui" /\ IsSetData(last) /\ last.ret = "True")
    => /\ Cardinality(RowLints(last)) = 1
       /\ unsaved_changes = TRUE
\* a committed edit in a session that had no unsaved change before it
C8_Witness ==
    /\ impl = "petab_gui"
    /\ IsSetData(last)
    /\ last.ret = "True"
    /\ steps = 1
    /\ Cardinality(RowLints(last)) = 1

\* the typed value, as the cell holds it once committed
Committed(t, row, column, value) ==
    LET f == df[t]
    IN IF impl = "petab_gui" /\ has_named_index(t)
       THEN IF column = 0 THEN f.index[row + 1] = value
            ELSE Iloc(f, row, column - 1) \in {value, PyFloat(value), PyBool(value)}
       ELSE Iloc(f, row, column) \in {value, PyFloat(value), PyBool(value)}

\* C9 (the lint outcome determines the marks of the edited row): when setData
\* on cell (r, c) has returned True, then if the lint of row r failed the
\* typed value is in the cell and (r, c) is marked invalid, and if it passed
\* no cell of row r is marked invalid.
C9_LintDeterminesMarks ==
    (IsSetData(last) /\ last.ret = "True")
    => \A i \in RowLints(last) :
          IF last.lints[i].ok
          THEN \A m \in invalid[last.table] : m[1] # last.row
          ELSE /\ <<last.row, last.column>> \in invalid[last.table]
               /\ Committed(last.table, last.row, last.column, last.value)
\* a committed edit whose lint failed, after an earlier handler
C9_Witness ==
    /\ IsSetData(last)
    /\ last.ret = "True"
    /\ \E i \in RowLints(last) : ~last.lints[i].ok
    /\ <<last.row, last.column>> \in invalid[last.table]
    /\ steps > 1

\* C10 (invalid marks follow row deletion): after delete_row the marks of the
\* table are those of the unselected rows, each at the row's new position.
C10_MarksFollowDeletion ==
    [][ DeletesRows(last')
        => LET rows == Range(last'.rows)
               kept == {m \in invalid[last'.table] : m[1] \notin rows}
           IN invalid'[last'.table] =
                {<<m[1] - Cardinality({r \in rows : r < m[1]}), m[2]>> : m \in kept} ]_vars

\* a message of the given kind went to the log pane during the call
Logged(call, kind) == \E i \in DOMAIN call.log : call.log[i][1] = kind

\* C11 (YAML load has no partial application): when upload_yaml_and_load_files
\* is given a YAML one of whose five files cannot be loaded, it changes no
\* table and no model text and leaves the unsaved flag as it was; and it logs
\* the success message only when all five files were loaded.
C11_YamlAllOrNothing ==
    [][ (last'.op = "upload_yaml_and_load_files" /\ last'.value # "")
        => /\ last'.failed # {}
                => (df' = df /\ sbml' = sbml /\ unsaved_changes' = unsaved_changes)
           /\ Logged(last', "yaml_loaded") => last'.failed = {} ]_vars

LoggedRed(call) == \E i \in DOMAIN call.log : call.log[i][2] = "red"

\* C12 (a failed single-file load changes nothing): petab_gui's
\* upload_and_overwrite_table with a file of another format or a file that
\* cannot be read, and a data-matrix upload of a readable file with no time
\* column, each log an error and leave every table, every invalid mark and
\* the unsaved flag as they were.
C12_FailedLoadChangesNothing ==
    [][ (\/ /\ impl = "petab_gui"
            /\ last'.op = "upload_and_overwrite_table"
            /\ last'.failed # {}
         \/ /\ last'.op = "process_data_matrix_file"
            /\ last'.matrix.readable
            /\ ~has_time_column(last'.matrix.columns))
        => /\ LoggedRed(last')
           /\ df' = df
           /\ invalid' = invalid
           /\ unsaved_changes' = unsaved_changes ]_vars

Prompted(call) == "close_reply" \in call.used

\* C13 (close flow): a close request with unsaved_changes False closes the
\* window without a prompt; with unsaved_changes True the user is prompted
\* with Save/Discard/Cancel, Cancel keeps the window open and leaves the
\* tables, the model text and the unsaved flag as they were, and Discard and
\* Save let the window close.
C13_CloseFlow ==
    [][ last'.op = "closeEvent"
        => IF ~unsaved_changes
           THEN ~Prompted(last') /\ window' = "closed"
           ELSE /\ Prompted(last')
                /\ last'.answers.close_reply = "Cancel"
                      => /\ window' = "open"
                         /\ df' = df
                         /\ sbml' = sbml
                         /\ unsaved_changes' = unsaved_changes
                /\ last'.answers.close_reply \in {"Save", "Discard"}
                      => window' = "closed" ]_vars

\* a close request with unsaved changes was answered with Cancel
C13_Witness ==
    /\ last.op = "closeEvent"
    /\ Prompted(last)
    /\ last.answers.close_reply = "Cancel"
    /\ unsaved_changes
    /\ window = "open"

\* the call was made in penGUI
InPenGUI(op) == impl = "penGUI" /\ last.op = op

\* C14 (SBML/Antimony sync on success): in penGUI, after
\* update_antimony_from_sbml on a text the converter accepts, the stored
\* antimony_text is the converter's output for the stored sbml_text, the
\* stored sbml_text is the text the user edited, the Antimony pane shows the
\* stored antimony_text and unsaved_changes is True; symmetrically for
\* update_sbml_from_antimony.
C14_SbmlAntimonySync ==
    /\ (InPenGUI("update_antimony_from_sbml") /\ sbmlToAntimony(last.value) # "raise")
          => /\ sbml.sbml_text = last.value
             /\ sbml.antimony_text = sbmlToAntimony(sbml.sbml_text)
             /\ sbml.antimony_text_edit = sbml.antimony_text
             /\ unsaved_changes
    /\ (InPenGUI("update_sbml_from_antimony") /\ antimonyToSBML(last.value) # "raise")
          => /\ sbml.antimony_text = last.value
             /\ sbml.sbml_text = antimonyToSBML(sbml.antimony_text)
             /\ sbml.sbml_text_edit = sbml.sbml_text
             /\ unsaved_changes

\* the edited SBML text was converted and differs from the initial model
C14_Witness ==
    /\ InPenGUI("update_antimony_from_sbml")
    /\ last.value = "sbml1"
    /\ sbml.antimony_text = "ant1"

\* the observable_id_changed notifications of a call
RenameNotifications(call) ==
    {i \in DOMAIN call.emitted : call.emitted[i][1] = "observable_id_changed"}
\* the cell of data row i (counted from 1) and frame column j holds row i's key
IsKeyCell(f, t, j) == HasColumn(f, IdColumn(t)) /\ j = ColPos(f, IdColumn(t))

\* C15 (successful rename): in petab_gui, setData on the index cell of a data
\* row of an indexed table, with a value that differs from the row's key and
\* is no key of the table, returns True, replaces exactly that row's key (the
\* old key is gone, the new key is there, the rows keep their positions, and
\* all other keys and cells are as before) and emits exactly one rename
\* notification, carrying (new key, old key).
C15_SuccessfulRename ==
    [][ (/\ impl = "petab_gui"
         /\ IsSetData(last')
         /\ last'.table \in IndexedTables
         /\ OnDataRow(last')
         /\ last'.column = 0
         /\ \A i \in DOMAIN df[last'.table].index :
               Key(df[last'.table], last'.table, i) # last'.value)
        => LET t == last'.table
               r == last'.row + 1
               old_key == Key(df[t], t, r)
           IN /\ last'.ret = "True"
              /\ NRows(df'[t]) = NRows(df[t])
              /\ df'[t].columns = df[t].columns
              /\ Key(df'[t], t, r) = last'.value
              /\ \A i \in DOMAIN df'[t].index :
                    /\ Key(df'[t], t, i) # old_key
                    /\ i # r => Key(df'[t], t, i) = Key(df[t], t, i)
                    /\ \A j \in DOMAIN df[t].columns :
                          \/ i = r /\ IsKeyCell(df[t], t, j)
                          \/ df'[t].data[i][j] = df[t].data[i][j]
              /\ Cardinality(RenameNotifications(last')) = 1
              /\ \A i \in RenameNotifications(last') :
                    last'.emitted[i] = <<"observable_id_changed", last'.value, old_key>>
       ]_vars

\* what the view shows in the first cell of data row i (counted from 1):
\* the index label of an indexed table, the first column of the measurements
FirstCell(f, t, i) == IF has_named_index(t) THEN f.index[i] ELSE f.data[i][1]
\* the call addressed the trailing slot
OnTrailingSlot(call) == call.row = NRows(df[call.table])

\* C16 (trailing-row materialization): in petab_gui, an accepted edit of the
\* first cell of the trailing slot adds exactly one data row at the end of
\* the table, holding the entered value in its first cell; every existing row
\* is as before and rowCount has grown by exactly one.
C16_TrailingRowMaterialized ==
    [][ (/\ impl = "petab_gui"
         /\ IsSetData(last')
         /\ OnTrailingSlot(last')
         /\ last'.column = 0
         /\ last'.ret = "True")
        => LET t == last'.table
           IN /\ NRows(df'[t]) = NRows(df[t]) + 1
              /\ rowCount(df'[t]) = rowCount(df[t]) + 1
              /\ FirstCell(df'[t], t, NRows(df'[t])) = last'.value
              /\ \A i \in DOMAIN df[t].index :
                    /\ df'[t].index[i] = df[t].index[i]
                    /\ df'[t].data[i] = df[t].data[i] ]_vars

\* a row of the observable table was materialized from the trailing slot
C16_Witness ==
    /\ impl = "petab_gui"
    /\ IsSetData(last)
    /\ last.table = "observable"
    /\ last.column = 0
    /\ last.ret = "True"
    /\ Emitted(last, "inserted_row")
    /\ last.row = NRows(df["observable"]) - 1
    /\ df["observable"].index[last.row + 1] = last.value

\* C17 (a rejected edit of the trailing slot is discarded entirely): in
\* petab_gui, when setData addresses a cell of the trailing slot with a value
\* that does not convert to the column's declared type, or with a value for
\* the index cell that is already a key, it returns False and the table has
\* the data rows and values it had before the call.
C17_RejectedTrailingEditDiscarded ==
    [][ (/\ impl = "petab_gui"
         /\ IsSetData(last')
         /\ OnTrailingSlot(last')
         /\ \/ /\ DeclaredType(last'.table, last'.column) = "NUMERIC"
               /\ PyFloat(last'.value) = "ValueError"
            \/ /\ last'.table \in IndexedTables
               /\ last'.column = 0
               /\ \E i \in DOMAIN df[last'.table].index :
                     Key(df[last'.table], last'.table, i) = last'.value)
        => (/\ last'.ret = "False"
            /\ df'[last'.table] = df[last'.table]) ]_vars

\* the rows of the view, 0 .. rowCount - 1, and the rows of get_df's frame
ViewRows(f) == 0..(rowCount(f) - 1)
DataRows(f) == {i - 1 : i \in DOMAIN get_df(f).index}

\* C18 (trailing slot): in every reachable state of petab_gui, each table
\* model's rowCount is the number of data rows of get_df's frame plus one,
\* and the one view row beyond the data rows, the trailing slot, is no row of
\* that frame, whose labels and rows of cells match one to one.
C18_TrailingSlot ==
    impl = "petab_gui" =>
        \A t \in Tables :
            /\ rowCount(df[t]) = Len(get_df(df[t]).data) + 1
            /\ Len(get_df(df[t]).data) = Len(get_df(df[t]).index)
            /\ ViewRows(df[t]) \ DataRows(df[t]) = {rowCount(df[t]) - 1}
            /\ DataRows(df[t]) \subseteq ViewRows(df[t])

\* the trailing slot of the measurement table was edited and a new one exists
C18_Witness ==
    /\ impl = "petab_gui"
    /\ IsSetData(last)
    /\ last.table = "measurement"
    /\ Emitted(last, "inserted_row")
    /\ last.ret = "True"
    /\ rowCount(df["measurement"]) = last.row + 2

\* the data rows (counted from 1) of the observable frame f with key v
ObservablesWithKey(f, v) ==
    {i \in DOMAIN f.index : Key(f, "observable", i) = v}

\* C19 (automatic observable creation): in petab_gui, after a committed edit
\* that sets a measurement row's observableId to v, the observable table has
\* exactly one row with key v; if v was a key already, the observable table
\* is as it was before the edit.
C19_ObservableCreated ==
    [][ (/\ impl = "petab_gui"
         /\ IsSetData(last')
         /\ last'.table = "measurement"
         /\ HasColumn(df["measurement"], "observableId")
         /\ last'.column = ColPos(df["measurement"], "observableId") - 1
         /\ last'.ret = "True")
        => /\ Cardinality(ObservablesWithKey(df'["observable"], last'.value)) = 1
           /\ ObservablesWithKey(df["observable"], last'.value) # {}
                 => df'["observable"] = df["observable"] ]_vars

\* the columns of a data matrix other than its time column
ObservableColumns(matrix) ==
    {matrix.columns[j] : j \in DOMAIN matrix.columns} \ {time_column(matrix.columns)}
\* the data rows (counted from 1) of frame f whose column name holds v
RowsWith(f, name, v) ==
    {i \in DOMAIN f.data : HasColumn(f, name) /\ f.data[i][ColPos(f, name)] = v}
\* the data rows (counted from 1) of table t of the frames d with key v
RowsWithKey(d, t, v) == {i \in DOMAIN d[t].index : Key(d[t], t, i) = v}

\* C20 (data-matrix population): processing a data matrix with a time column,
\* n rows and k other columns appends exactly n*k measurement rows, n for
\* each of the k columns with that column's name as observableId and 'cond1'
\* as condition id, and leaves the measurement rows that were there; after
\* it each of the k column names is the key of exactly one observable and
\* 'cond1' the key of exactly one condition.
C20_DataMatrixPopulation ==
    [][ (/\ last'.op = "process_data_matrix_file"
         /\ last'.matrix.readable
         /\ has_time_column(last'.matrix.columns)
         /\ last'.matrix.rows # <<>>)
        => LET m == df["measurement"]
               m2 == df'["measurement"]
               n == Len(last'.matrix.rows)
               names == ObservableColumns(last'.matrix)
               appended == (NRows(m) + 1)..NRows(m2)
           IN /\ NRows(m2) = NRows(m) + n * Cardinality(names)
              /\ \A i \in DOMAIN m.data :
                    i \in DOMAIN m2.data /\ m2.data[i] = m.data[i]
              /\ \A name \in names :
                    /\ Cardinality(RowsWith(m2, "observableId", name) \cap appended) = n
                    /\ Cardinality(RowsWithKey(df', "observable", name)) = 1
              /\ HasColumn(m2, "simulationConditionId")
                    => appended \subseteq RowsWith(m2, "simulationConditionId", "cond1")
              /\ Cardinality(RowsWithKey(df', "condition", "cond1")) = 1 ]_vars

\* what the docstring of copy_noise_parameters promises for the measurement
\* frame f: the rows with the observable, among them the rows with the
\* condition when one is given and such a row exists, and of those the first
NoiseSource(f, observable_id, condition_id) ==
    LET with_observable == {i \in DOMAIN f.data : f.data[i][1] = observable_id}
        with_condition == {i \in with_observable : f.data[i][2] = condition_id}
    IN IF condition_id # "" /\ with_condition # {} THEN with_condition
       ELSE with_observable

\* C21 (copy_noise_parameters): on a measurement table with the columns
\* observableId, simulationConditionId and noiseParameters, the call returns
\* the noiseParameters of the first row with the given observableId and, when
\* a condition id is given and such a row exists, the given
\* simulationConditionId; otherwise of the first row with the observableId;
\* the empty string when no row has the observableId. The measurement table
\* is not modified.
C21_CopyNoiseParameters ==
    [][ last'.op = "copy_noise_parameters"
        => LET f == df["measurement"]
               source == NoiseSource(f, last'.args[1], last'.args[2])
           IN /\ last'.ret = IF source = {} THEN "" ELSE f.data[Min(source)][3]
              /\ df' = df ]_vars

\* the dialog inputs with which add_measurement_row reaches
\* add_row_with_defaults: all three mandatory fields filled in and the noise
\* parameters looked up without an exception
ReachesAddRow(inputs) ==
    /\ inputs # <<>>
    /\ inputs[1] # "" /\ inputs[2] # "" /\ inputs[3] # ""
    /\ HasColumn(df["condition"], "conditionId")
    /\ HasColumn(df["observable"], "observableId")
    /\ penGUI_copy_noise_parameters(Ctx, inputs[1], inputs[4]).ret # "raise"

\* a value of the dialog that the measurement table rejects for its type
FailsValidation(inputs) ==
    \E p \in {<<"observableId", inputs[1]>>, <<"measurement", inputs[2]>>,
              <<"time", inputs[3]>>, <<"simulationConditionId", inputs[4]>>} :
       /\ HasColumn(df["measurement"], p[1])
       /\ DictGet(penGUI_allowed_columns("measurement"), p[1]) # "None"
       /\ validate_value(p[2], DictGet(penGUI_allowed_columns("measurement"), p[1])).error

\* C22: when a value given to add_row_with_defaults by
\* process_measurement_inputs fails type validation, the row addition is
\* abandoned: the error is logged, the four tables are what they were before
\* (so the provisional row is gone and no observable or condition was added)
\* and unsaved_changes is untouched.
C22_AbandonedRowLeavesNoTrace ==
    [][(last'.op = "add_measurement_row" /\ ReachesAddRow(last'.args)
        /\ FailsValidation(last'.args))
       => (/\ Logged(last', "input_error")
           /\ df' = df
           /\ unsaved_changes' = unsaved_changes)]_vars

\* C23 (save writes the working copy): whenever petab_gui has written an
\* archive, from the Save action or from the Save answer of the close prompt,
\* the archive holds, for each table, the frame the table model holds at that
\* moment, and the SBML text the SBML model holds.
C23_SaveWritesWorkingCopy ==
    (impl = "petab_gui" /\ last.saved)
    => /\ \A t \in Tables :
             \E name \in DOMAIN last.written : last.written[name] = to_csv(df[t])
       /\ \E name \in DOMAIN last.written :
             last.written[name] = [text |-> sbml.sbml_text]

\* the table data and the model texts that the unsaved flag accounts for
WorkingCopy == <<df, sbml.sbml_text, sbml.antimony_text>>

\* C24 (the unsaved flag tracks every change): a handler that alters a table
\* or the SBML or Antimony text leaves unsaved_changes True, unless it is a
\* YAML load that completed; so while the flag is False the working copy is
\* what it was at start-up or at the last completed YAML load.
C24_UnsavedTracksChanges ==
    [][ WorkingCopy' # WorkingCopy
        => \/ unsaved_changes'
           \/ last'.op = "upload_yaml_and_load_files" /\ last'.failed = {} ]_vars

\* C25 (no silent loss on close): a window that has closed with
\* unsaved_changes True was closed by the Discard answer of the prompt or
\* after an archive was written; the Save answer followed by a cancelled
\* file dialog does not close it.
C25_NoSilentLossOnClose ==
    (window = "closed" /\ unsaved_changes)
    => \/ "close_reply" \in last.used /\ last.answers.close_reply = "Discard"
       \/ last.saved

\* C26 (save clears the unsaved state): right after save_model has written
\* the archive, unsaved_changes is False, so that a close request that comes
\* next closes the window without asking.
C26_SaveClearsUnsaved ==
    (last.op = "save_model" /\ last.saved) => ~unsaved_changes

\* C27 (a failed conversion changes nothing): when the converter raises in
\* update_antimony_from_sbml or update_sbml_from_antimony of penGUI, the
\* stored SBML text and Antimony text are what they were before the handler,
\* and unsaved_changes is unchanged.
C27_FailedConversionKeepsTexts ==
    [][ (/\ impl = "penGUI"
         /\ last'.op \in {"update_antimony_from_sbml", "update_sbml_from_antimony"}
         /\ Logged(last', "conversion_failed"))
        => /\ sbml'.sbml_text = sbml.sbml_text
           /\ sbml'.antimony_text = sbml.antimony_text
           /\ unsaved_changes' = unsaved_changes ]_vars

\* a committed petab_gui edit that sets the observableId of a measurement
\* row to a value that was the key of no observable
SetsUnknownObservable ==
    /\ impl = "petab_gui"
    /\ IsSetData(last')
    /\ last'.table = "measurement"
    /\ HasColumn(df["measurement"], "observableId")
    /\ last'.column = ColPos(df["measurement"], "observableId") - 1
    /\ last'.ret = "True"
    /\ ObservablesWithKey(df["observable"], last'.value) = {}
\* the lints of the measurement table that a call has run
MeasurementLints(call) ==
    {i \in DOMAIN call.lints : call.lints[i].table = "measurement"}

\* C28 (lint sees the current dependent tables): in petab_gui, when a
\* committed edit sets a measurement row's observableId to an id that is no
\* observable yet, the measurement row is linted, the observable table that
\* the lint is given is the table as the handler leaves it, and that table
\* has a row whose key is the new id.
C28_LintSeesNewObservable ==
    [][ SetsUnknownObservable
        => /\ \E i \in MeasurementLints(last') : last'.lints[i].row = last'.row
           /\ \A i \in MeasurementLints(last') :
                 last'.lints[i].observable_index = df'["observable"].index
           /\ ObservablesWithKey(df'["observable"], last'.value) # {} ]_vars

\* the column name is allowed for table t in the implementation at hand
AllowedName(t, column_name) ==
    IF impl = "petab_gui"
    THEN column_name \in DOMAIN allowed_columns(t) \/ DOMAIN allowed_columns(t) = {}
    ELSE column_name \in DOMAIN penGUI_allowed_columns(t)
\* the add-column handler has reported that it added nothing
ColumnRefused(call) == call.ret = "False" \/ Logged(call, "invalid_column")
\* frame g is frame f, or f with one more column at the right
SameCellsAs(f, g) ==
    /\ g.index = f.index
    /\ Len(g.columns) \in {Len(f.columns), Len(f.columns) + 1}
    /\ \A j \in DOMAIN f.columns : g.columns[j] = f.columns[j]
    /\ \A i \in DOMAIN f.data : \A j \in DOMAIN f.columns : g.data[i][j] = f.data[i][j]

\* C29 (adding a column changes no existing cell): a column name that is not
\* allowed for the table leaves every table as it was and the failure is
\* reported; an allowed name adds at most one column at the right of that
\* table and every cell that existed keeps its value, also when the name is
\* the name of an existing column.
C29_AddColumnKeepsCells ==
    [][ (last'.op = "add_column" /\ last'.value # "")
        => IF AllowedName(last'.table, last'.value)
           THEN /\ SameCellsAs(df[last'.table], df'[last'.table])
                /\ \A t \in Tables \ {last'.table} : df'[t] = df[t]
           ELSE df' = df /\ ColumnRefused(last') ]_vars

\* C30 (the title shows the unsaved state): in every state of petab_gui the
\* window title is "PEtab Editor - Unsaved Changes" when unsaved_changes is
\* True and "PEtab Editor" when it is False.
C30_TitleShowsUnsaved ==
    impl = "petab_gui"
    => title = (IF unsaved_changes THEN "PEtab Editor - Unsaved Changes"
                ELSE "PEtab Editor")
====
